---- MODULE Spec2Model ----
(***************************************************************************)
(* A model of the slash-command library: the SlashCommand descriptor with  *)
(* its option validation/transformation pass (src/src/SlashCommandBase.ts) *)
(* and the SlashasaurusClient facade: the command tree loader, the three   *)
(* registries, the middleware pipelines and the dispatcher                 *)
(* (src/src/SlashasaurusClient.ts).                                        *)
(***************************************************************************)
EXTENDS Integers, Sequences, FiniteSets, TLC

(***************************************************************************)
(* JavaScript values.  Every value of the model is a string, so that any   *)
(* two of them can be compared.                                            *)
(***************************************************************************)
Null == "null"
Undefined == "undefined"

(***************************************************************************)
(* Option values an event can carry.  The validators and transformers are  *)
(* user code; the model fixes one validator and one transformer, whose     *)
(* behaviour is decided by the value they are given:                       *)
(*   "ok"    the validator returns true                                    *)
(*   "false" the validator returns false                                   *)
(*   "str"   the validator returns a string (a rejection message)          *)
(*   "verr"  the validator throws a ValidationError                        *)
(*   "boom"  the validator throws some other Error                         *)
(***************************************************************************)
RawValues == {"ok", "false", "str", "verr", "boom"}

\* The message a rejecting validator produces for option `name`.
RejectMessage(name) == "bad " \o name

\* What the validator of option `name` does with `value`:
\* [kind |-> "return" | "throw", value |-> the result, or the error's class]
Validator(name, value) ==
  CASE value = "str"   -> [kind |-> "return", value |-> "string", message |-> RejectMessage(name)]
    [] value = "false" -> [kind |-> "return", value |-> "false", message |-> ""]
    [] value = "verr"  -> [kind |-> "throw", value |-> "ValidationError", message |-> RejectMessage(name)]
    [] value = "boom"  -> [kind |-> "throw", value |-> "Error", message |-> "boom " \o name]
    [] OTHER           -> [kind |-> "return", value |-> "true", message |-> ""]

\* The transformer: never the identity.
Transformer(value) == "T(" \o value \o ")"

(***************************************************************************)
(* new SlashCommand(commandInfo, handlers)                                 *)
(* An option is [name, required, validator, transformer, onAutocomplete],  *)
(* the last three telling whether the key is present in the option.        *)
(* handlers is [run |-> a handler or Undefined,                            *)
(*              autocomplete |-> a handler or Undefined (key absent)].     *)
(***************************************************************************)
OptionNamesWith(options, key) ==
  {options[i].name : i \in {j \in DOMAIN options : options[j][key]}}

\* The prototype's autocomplete method, kept when handlers has no autocomplete.
DefaultAutocomplete == "SlashCommand.prototype.autocomplete"

\* The prototype's run method: replies 'This command is not implemented yet'.
DefaultRun == "SlashCommand.prototype.run"

SlashCommand(commandInfo, handlers) ==
  [commandInfo     |-> commandInfo,
   validatorsMap   |-> OptionNamesWith(commandInfo.options, "validator"),
   transformersMap |-> OptionNamesWith(commandInfo.options, "transformer"),
   autocompleteMap |-> OptionNamesWith(commandInfo.options, "onAutocomplete"),
   \* this.run = handlers.run: an own property, Undefined when handlers has no run
   run             |-> handlers.run,
   \* if ('autocomplete' in handlers) this.autocomplete = handlers.autocomplete
   autocomplete    |-> IF handlers.autocomplete # Undefined
                       THEN handlers.autocomplete ELSE DefaultAutocomplete]

\* The mark of a call that throws.
Thrown == "<throws>"

\* A variant of getDataForType in which an absent option is undefined.
getDataForTypeUndefined(interaction, name, required) ==
  IF interaction.options[name] # Null THEN interaction.options[name]
  ELSE IF required THEN Thrown
  ELSE Undefined

(***************************************************************************)
(* getDataForType: interaction.options.getX(name, required).  The resolver *)
(* returns the supplied value, null for an absent option that is not       *)
(* required, and throws for an absent option that is required.             *)
(* An interaction is [class, options], options mapping every option name   *)
(* to a raw value or to Null (not supplied).                               *)
(***************************************************************************)
getDataForType(interaction, name, required) ==
  IF interaction.options[name] # Null THEN interaction.options[name]
  ELSE IF required THEN Thrown
  ELSE Null

\* A variant of the loop body that takes every result but true for a
\* rejection.
ValidateOptionRejectsFalse(command, interaction, skipRequiredCheck, option, acc) ==
  LET value == getDataForType(interaction, option.name,
                              IF skipRequiredCheck THEN FALSE ELSE option.required)
      runsValidator == /\ option.name \in command.validatorsMap
                       /\ interaction.class = "CommandInteraction"
      validateResult == Validator(option.name, value)
      rethrown == runsValidator /\ validateResult.kind = "throw"
                                /\ validateResult.value # "ValidationError"
      rejected == runsValidator /\
                  \/ validateResult.kind = "return" /\ validateResult.value # "true"
                  \/ validateResult.kind = "throw" /\ validateResult.value = "ValidationError"
      isValid == ~(runsValidator /\ validateResult.kind = "return"
                                 /\ validateResult.value # "true")
      errors == IF rejected THEN Append(acc.errors, validateResult.message) ELSE acc.errors
      vcalls == IF runsValidator THEN Append(acc.vcalls, option.name) ELSE acc.vcalls
      transforms == option.name \in command.transformersMap
  IN  IF value = Thrown
        THEN [acc EXCEPT !.thrown = "TypeError"]
      ELSE IF value = Null
        THEN [acc EXCEPT !.values[option.name] = Null,
                         !.assigned = @ \cup {option.name}]
      ELSE IF rethrown
        THEN [acc EXCEPT !.vcalls = vcalls, !.thrown = validateResult.value]
      ELSE IF ~isValid
        THEN [acc EXCEPT !.errors = errors, !.vcalls = vcalls]
      ELSE [acc EXCEPT !.errors = errors, !.vcalls = vcalls,
                       !.tcalls = IF transforms THEN Append(@, option.name) ELSE @,
                       !.values[option.name] = IF transforms THEN Transformer(value) ELSE value,
                       !.assigned = @ \cup {option.name}]

\* A variant of the loop body whose catch takes every error thrown by a
\* validator for a ValidationError.
ValidateOptionCatchesAll(command, interaction, skipRequiredCheck, option, acc) ==
  LET value == getDataForType(interaction, option.name,
                              IF skipRequiredCheck THEN FALSE ELSE option.required)
      runsValidator == /\ option.name \in command.validatorsMap
                       /\ interaction.class = "CommandInteraction"
      validateResult == Validator(option.name, value)
      rejected == runsValidator /\
                  \/ validateResult.kind = "return" /\ validateResult.value = "string"
                  \/ validateResult.kind = "throw"
      isValid == ~(runsValidator /\ validateResult.kind = "return"
                                 /\ validateResult.value = "string")
      errors == IF rejected THEN Append(acc.errors, validateResult.message) ELSE acc.errors
      vcalls == IF runsValidator THEN Append(acc.vcalls, option.name) ELSE acc.vcalls
      transforms == option.name \in command.transformersMap
  IN  IF value = Thrown
        THEN [acc EXCEPT !.thrown = "TypeError"]
      ELSE IF value = Null
        THEN [acc EXCEPT !.values[option.name] = Null,
                         !.assigned = @ \cup {option.name}]
      ELSE IF ~isValid
        THEN [acc EXCEPT !.errors = errors, !.vcalls = vcalls]
      ELSE [acc EXCEPT !.errors = errors, !.vcalls = vcalls,
                       !.tcalls = IF transforms THEN Append(@, option.name) ELSE @,
                       !.values[option.name] = IF transforms THEN Transformer(value) ELSE value,
                       !.assigned = @ \cup {option.name}]

(***************************************************************************)
(* validateAndTransformOptions(interaction, skipRequiredCheck).            *)
(* The pass is a loop over the declared options; `acc` is its state:       *)
(*   errors, values  the two locals of the function                        *)
(*   assigned        the option names that are keys of values              *)
(*   vcalls, tcalls  the validators and transformers invoked, in order     *)
(*   thrown          the error that ended the pass, or Null                *)
(***************************************************************************)
ValidateOption(command, interaction, skipRequiredCheck, option, acc) ==
  LET value == getDataForType(interaction, option.name,
                              IF skipRequiredCheck THEN FALSE ELSE option.required)
      runsValidator == /\ option.name \in command.validatorsMap
                       /\ interaction.class = "CommandInteraction"
      validateResult == Validator(option.name, value)
      \* after the try/catch: errors, isValid, and whether the error was rethrown
      rethrown == runsValidator /\ validateResult.kind = "throw"
                                /\ validateResult.value # "ValidationError"
      rejected == runsValidator /\
                  \/ validateResult.kind = "return" /\ validateResult.value = "string"
                  \/ validateResult.kind = "throw" /\ validateResult.value = "ValidationError"
      isValid == ~(runsValidator /\ validateResult.kind = "return"
                                 /\ validateResult.value = "string")
      errors == IF rejected THEN Append(acc.errors, validateResult.message) ELSE acc.errors
      vcalls == IF runsValidator THEN Append(acc.vcalls, option.name) ELSE acc.vcalls
      transforms == option.name \in command.transformersMap
  IN  IF value = Thrown
        THEN [acc EXCEPT !.thrown = "TypeError"]
      ELSE IF value = Null
        THEN [acc EXCEPT !.values[option.name] = Null,
                         !.assigned = @ \cup {option.name}]
      ELSE IF rethrown
        THEN [acc EXCEPT !.vcalls = vcalls, !.thrown = validateResult.value]
      ELSE IF ~isValid
        THEN [acc EXCEPT !.errors = errors, !.vcalls = vcalls]
      ELSE [acc EXCEPT !.errors = errors, !.vcalls = vcalls,
                       !.tcalls = IF transforms THEN Append(@, option.name) ELSE @,
                       !.values[option.name] = IF transforms THEN Transformer(value) ELSE value,
                       !.assigned = @ \cup {option.name}]

\* A variant of the loop that stops at the first rejection.
RECURSIVE ValidateFromFirstError(_, _, _, _, _)
ValidateFromFirstError(command, interaction, skipRequiredCheck, i, acc) ==
  IF i > Len(command.commandInfo.options) \/ acc.thrown # Null \/ Len(acc.errors) > 0
    THEN acc
  ELSE ValidateFromFirstError(command, interaction, skipRequiredCheck, i + 1,
         ValidateOption(command, interaction, skipRequiredCheck,
                        command.commandInfo.options[i], acc))

RECURSIVE ValidateFrom(_, _, _, _, _)
ValidateFrom(command, interaction, skipRequiredCheck, i, acc) ==
  IF i > Len(command.commandInfo.options) \/ acc.thrown # Null THEN acc
  ELSE ValidateFrom(command, interaction, skipRequiredCheck, i + 1,
         ValidateOption(command, interaction, skipRequiredCheck,
                        command.commandInfo.options[i], acc))

\* [kind |-> "values" | "errors" | "throw", ...]: what the call resolves to.
validateAndTransformOptions(command, interaction, skipRequiredCheck) ==
  LET names == {command.commandInfo.options[i].name : i \in DOMAIN command.commandInfo.options}
      acc == ValidateFrom(command, interaction, skipRequiredCheck, 1,
               [errors |-> <<>>, values |-> [n \in names |-> Undefined], assigned |-> {},
                vcalls |-> <<>>, tcalls |-> <<>>, thrown |-> Null])
  IN  [kind   |-> IF acc.thrown # Null THEN "throw"
                  ELSE IF Len(acc.errors) > 0 THEN "errors" ELSE "values",
       \* if (errors.length > 0) return errors; return values
       result |-> IF acc.thrown # Null THEN <<>>
                  ELSE IF Len(acc.errors) > 0 THEN acc.errors
                  ELSE [i \in DOMAIN command.commandInfo.options |->
                          acc.values[command.commandInfo.options[i].name]],
       errors |-> acc.errors,
       values |-> acc.values,
       assigned |-> acc.assigned,
       vcalls |-> acc.vcalls,
       tcalls |-> acc.tcalls,
       thrown |-> acc.thrown]

(***************************************************************************)
(* The commands the command files export.  P1 and P2 are two command       *)
(* objects that declare the same name; P2 is built from a handlers object  *)
(* with no run function.  Echo declares two options.                       *)
(***************************************************************************)
NoOptions == <<>>

EchoOptions ==
  << [name |-> "a", required |-> TRUE, validator |-> TRUE, transformer |-> TRUE,
      onAutocomplete |-> FALSE],
     [name |-> "b", required |-> FALSE, validator |-> TRUE, transformer |-> FALSE,
      onAutocomplete |-> TRUE] >>

ChatCommandIds == {"P1", "P2", "Echo"}

ChatCommandInfo(id) ==
  CASE id = "P1"   -> [name |-> "ping", description |-> "Ping", options |-> NoOptions]
    [] id = "P2"   -> [name |-> "ping", description |-> "Ping again", options |-> NoOptions]
    [] id = "Echo" -> [name |-> "echo", description |-> "Echo", options |-> EchoOptions]

\* The handlers object each command is built from; Undefined is a key that
\* the object does not have.
ChatHandlers(id) ==
  CASE id = "P1"   -> [run |-> "P1.run", autocomplete |-> Undefined]
    [] id = "P2"   -> [run |-> Undefined, autocomplete |-> Undefined]
    [] id = "Echo" -> [run |-> "Echo.run", autocomplete |-> "Echo.autocomplete"]

ChatCommand(id) == SlashCommand(ChatCommandInfo(id), ChatHandlers(id))

\* Context menu commands: U1 and U2 are two user commands of the same name,
\* M1 and M2 two message commands of the same name.
UserCommandIds == {"U1", "U2"}
MessageCommandIds == {"M1", "M2"}

ContextCommandName(id) == IF id \in UserCommandIds THEN "info" ELSE "pin"

\* Something a file can export by default that is no command at all.
NotACommand == "NotACommand"

(***************************************************************************)
(* A value a module exports is [typeof, value]: what typeof yields on it   *)
(* and the value.  An object (a module, a metadata object) is the function *)
(* from its keys to their values; obj[key] of a key it does not have is    *)
(* undefined.                                                              *)
(***************************************************************************)
Export(typeof, value) == [value |-> value, typeof |-> typeof]

Get(obj, key) == IF key \in DOMAIN obj THEN obj[key] ELSE Export("undefined", Undefined)

\* !value: undefined, null, false, 0, NaN, 0n and '' are falsy.
Not(export) ==
  \/ export.typeof = "undefined"
  \/ export.typeof = "object" /\ export.value = Null
  \/ export.typeof = "boolean" /\ export.value = "false"
  \/ export.typeof \in {"number", "bigint"} /\ export.value \in {"0", "NaN"}
  \/ export.typeof = "string" /\ export.value = ""

\* command instanceof SlashCommand
isChatCommand(export) == export.typeof = "object" /\ export.value \in ChatCommandIds

\* The capability checks of ContextMenuBase.
isUserCommand(export) == export.typeof = "object" /\ export.value \in UserCommandIds
isMessageCommand(export) == export.typeof = "object" /\ export.value \in MessageCommandIds

(***************************************************************************)
(* A file name is the sequence of its characters, so that "ping.ts" is     *)
(* <<"p", "i", "n", "g", ".", "t", "s">>.                                  *)
(***************************************************************************)
EndsWith(name, ending) ==
  /\ Len(name) >= Len(ending)
  /\ SubSeq(name, Len(name) - Len(ending) + 1, Len(name)) = ending

\* /(?<!\.d)(\.js|\.ts)x?$/: the name ends with .js or .ts and an optional x,
\* and the two characters before that ending are not ".d".
JSFileRegex(name) ==
  \E ext \in {<<".", "j", "s">>, <<".", "t", "s">>}, x \in {<<>>, <<"x">>} :
    LET before == Len(name) - Len(ext \o x)
    IN  /\ EndsWith(name, ext \o x)
        /\ ~(before >= 2 /\ SubSeq(name, before - 1, before) = <<".", "d">>)

\* The line terminators of a regular expression, which its dot does not
\* match: \n, \r, U+2028 and U+2029.  A character outside ASCII is written
\* by its code point.
LineTerminators == {"\n", "\r", "U+2028", "U+2029"}

\* /_meta(.js|.ts)x?$/: the expression is not anchored at the start of the
\* name, and its dots stand for any character that ends no line.
MetaFileRegex(name) ==
  \E ext \in {<<"j", "s">>, <<"t", "s">>}, x \in {<<>>, <<"x">>} :
    LET before == Len(name) - Len(ext \o x) - 1
    IN  /\ before >= 5
        /\ EndsWith(name, ext \o x)
        /\ name[before + 1] \notin LineTerminators
        /\ SubSeq(name, before - 4, before) = <<"_", "m", "e", "t", "a">>

(***************************************************************************)
(* isCommandGroupMetadata(arg): the loop over the keys of the imported     *)
(* module; a key that is none of the four is passed over.                  *)
(***************************************************************************)
isCommandGroupMetadata(arg) ==
  \A key \in DOMAIN arg :
    /\ ~(key = "description" /\ arg[key].typeof # "string")
    /\ ~(key = "descriptionLocalizations" /\ arg[key].typeof # "object")
    /\ ~(key = "defaultMemberPermissions"
           /\ ~(\/ arg[key].typeof = "number"
                \/ arg[key].typeof = "string"
                \/ arg[key].typeof = "bigint"))
    /\ ~(key = "dmPermission" /\ arg[key].typeof # "boolean")

\* let metaData = { description: 'Default description' }
DefaultMetaData == [description |-> Export("string", "Default description")]

(***************************************************************************)
(* Map.prototype.set and the duplicate check of the chat loaders.          *)
(***************************************************************************)
MapSet(map, key, value) ==
  [k \in DOMAIN map \cup {key} |-> IF k = key THEN value ELSE map[k]]

\* A variant of the key at depth 3 that leaves the parent out.
LevelTwoKeyWithoutParent(parentName, name, command) ==
  name \o "." \o ChatCommand(command).commandInfo.name

\* mapName of a command file at depth 1, 2 and 3.
TopLevelKey(command) == ChatCommand(command).commandInfo.name
LevelOneKey(name, command) == name \o "." \o ChatCommand(command).commandInfo.name
LevelTwoKey(parentName, name, command) ==
  parentName \o "." \o name \o "." \o ChatCommand(command).commandInfo.name

\* A variant of the insertion into commandMap without the duplicate check.
AddChatCommandUnchecked(map, mapName, command) ==
  [error |-> Null, map |-> MapSet(map, mapName, command)]

\* if (this.commandMap.has(mapName)) throw ...; this.commandMap.set(mapName, command)
AddChatCommand(map, mapName, command) ==
  IF mapName \in DOMAIN map
    THEN [error |-> "Duplicate command name " \o mapName, map |-> map]
    ELSE [error |-> Null, map |-> MapSet(map, mapName, command)]

\* this.userContextMenuMap.set(command.commandInfo.name, command): no check
AddUserCommand(map, command) ==
  [error |-> Null, map |-> MapSet(map, ContextCommandName(command), command)]

\* this.messageContextMenuMap.set(command.commandInfo.name, command): no check
AddMessageCommand(map, command) ==
  [error |-> Null, map |-> MapSet(map, ContextCommandName(command), command)]

(***************************************************************************)
(* The file system the loaders walk.  A directory entry is                 *)
(* [name, folder, isFile]: a file has a name (its characters), a directory *)
(* has the name `folder`, which the loaders put in the dispatch keys.      *)
(* readdir yields the entries of a directory one after the other, in any   *)
(* order, and no name twice.                                               *)
(***************************************************************************)
File(name) == [name |-> name, folder |-> "", isFile |-> TRUE]
Directory(folder) == [name |-> <<>>, folder |-> folder, isFile |-> FALSE]

\* chat/: ping.ts, ping.cmd.js, echo.tsx, broken.ts, types.d.ts, grp/
ChatEntries ==
  {File(<<"p", "i", "n", "g", ".", "t", "s">>),
   File(<<"p", "i", "n", "g", ".", "c", "m", "d", ".", "j", "s">>),
   File(<<"e", "c", "h", "o", ".", "t", "s", "x">>),
   File(<<"b", "r", "o", "k", "e", "n", ".", "t", "s">>),
   File(<<"t", "y", "p", "e", "s", ".", "d", ".", "t", "s">>),
   Directory("grp")}
\* chat/grp/: ping.ts, ping.cmd.js, _meta.ts, broken.ts, sub/
LevelOneEntries ==
  {File(<<"p", "i", "n", "g", ".", "t", "s">>),
   File(<<"p", "i", "n", "g", ".", "c", "m", "d", ".", "j", "s">>),
   File(<<"_", "m", "e", "t", "a", ".", "t", "s">>),
   File(<<"b", "r", "o", "k", "e", "n", ".", "t", "s">>),
   Directory("sub")}
\* chat/grp/sub/: ping.ts, ping.cmd.js, my_meta.ts, broken.ts, deep/
LevelTwoEntries ==
  {File(<<"p", "i", "n", "g", ".", "t", "s">>),
   File(<<"p", "i", "n", "g", ".", "c", "m", "d", ".", "j", "s">>),
   File(<<"m", "y", "_", "m", "e", "t", "a", ".", "t", "s">>),
   File(<<"b", "r", "o", "k", "e", "n", ".", "t", "s">>),
   Directory("deep")}
\* user/: info.ts, info.cmd.js, broken.ts, types.d.ts, more/
UserEntries ==
  {File(<<"i", "n", "f", "o", ".", "t", "s">>),
   File(<<"i", "n", "f", "o", ".", "c", "m", "d", ".", "j", "s">>),
   File(<<"b", "r", "o", "k", "e", "n", ".", "t", "s">>),
   File(<<"t", "y", "p", "e", "s", ".", "d", ".", "t", "s">>),
   Directory("more")}
\* message/: pin.ts, pin.cmd.js, broken.ts, types.d.ts, more/
MessageEntries ==
  {File(<<"p", "i", "n", ".", "t", "s">>),
   File(<<"p", "i", "n", ".", "c", "m", "d", ".", "j", "s">>),
   File(<<"b", "r", "o", "k", "e", "n", ".", "t", "s">>),
   File(<<"t", "y", "p", "e", "s", ".", "d", ".", "t", "s">>),
   Directory("more")}

\* A module that exports nothing.
NoExports == [key \in {} |-> Export("undefined", Undefined)]

\* A module whose one export is the default export, an object.
Module(default) == [default |-> Export("object", default)]

\* The modules a meta file can be: one that exports the four fields of
\* CommandGroupMetadata, each of its type; one that exports nothing; one
\* whose description is the empty string; and modules with one export that
\* is not of its type.
MetaModules ==
  {[description |-> Export("string", "Group description"),
    descriptionLocalizations |-> Export("object", "{fr: 'Groupe'}"),
    defaultMemberPermissions |-> Export("string", "8"),
    dmPermission |-> Export("boolean", "false")],
   NoExports,
   [description |-> Export("number", "42")],
   [description |-> Export("undefined", Undefined)],
   [description |-> Export("string", "")],
   [description |-> Export("string", "Group description"),
    descriptionLocalizations |-> Export("string", "fr")],
   [description |-> Export("string", "Group description"),
    defaultMemberPermissions |-> Export("boolean", "true")],
   [description |-> Export("string", "Group description"),
    dmPermission |-> Export("string", "yes")]}

\* import(filePath): the modules the file of that name can be.  broken.ts has
\* no default export, a default export that is null or 0, one that is no
\* command, or a command of another folder; my_meta.ts is a meta file or a
\* command file.
Import(folder, entry) ==
  CASE entry.name = <<"p", "i", "n", "g", ".", "t", "s">> -> {Module("P1")}
    [] entry.name = <<"p", "i", "n", "g", ".", "c", "m", "d", ".", "j", "s">> -> {Module("P2")}
    [] entry.name = <<"e", "c", "h", "o", ".", "t", "s", "x">> -> {Module("Echo")}
    [] entry.name = <<"i", "n", "f", "o", ".", "t", "s">> -> {Module("U1")}
    [] entry.name = <<"i", "n", "f", "o", ".", "c", "m", "d", ".", "j", "s">> -> {Module("U2")}
    [] entry.name = <<"p", "i", "n", ".", "t", "s">> -> {Module("M1")}
    [] entry.name = <<"p", "i", "n", ".", "c", "m", "d", ".", "j", "s">> -> {Module("M2")}
    [] entry.name = <<"_", "m", "e", "t", "a", ".", "t", "s">> -> MetaModules
    [] entry.name = <<"m", "y", "_", "m", "e", "t", "a", ".", "t", "s">> ->
         MetaModules \cup {Module("P1")}
    [] entry.name = <<"b", "r", "o", "k", "e", "n", ".", "t", "s">> ->
         {NoExports, Module(Null), [default |-> Export("number", "0")],
          Module(NotACommand), Module(IF folder = "chat" THEN "U1" ELSE "P1")}
    [] OTHER -> {NoExports}

(***************************************************************************)
(* Wire descriptors: what the builders hold.  Of a descriptor the model    *)
(* keeps the name, the description and the kind; type is the               *)
(* ApplicationCommandType of a top-level descriptor.                       *)
(***************************************************************************)
ApplicationCommandTypeUser == 2
ApplicationCommandTypeMessage == 3

\* populateBuilder(command.commandInfo, new SlashCommandBuilder())
ChatDescriptor(command) ==
  [name |-> ChatCommand(command).commandInfo.name, kind |-> "command",
   description |-> ChatCommand(command).commandInfo.description]

\* populateBuilder(command.commandInfo, new SlashCommandSubcommandBuilder())
SubcommandDescriptor(command) ==
  [name |-> ChatCommand(command).commandInfo.name, kind |-> "subcommand",
   description |-> ChatCommand(command).commandInfo.description]

\* The error of a builder's setter that was given an argument it rejects.
InvalidDescription == "setDescription: expected a string of 1 to 100 characters"

\* builder.setDescription(description): the setters of @discordjs/builders
\* validate their argument and throw on one they reject; a description is a
\* string of 1 to 100 characters.
setDescription(description) ==
  IF description.typeof = "string" /\ Len(description.value) \in 1..100
    THEN [description |-> description.value, error |-> Null]
    ELSE [description |-> Undefined, error |-> InvalidDescription]

\* new SlashCommandBuilder().setName(name)...setDescription(metaData.description)
\* ...: the descriptor, or the error the chain threw.  The names of the
\* directories of the model are names setName accepts, and the other fields
\* a meta module of the model exports with their type are values their
\* setters accept.
GroupedCommandDescriptor(name, metaData) ==
  LET set == setDescription(Get(metaData, "description"))
  IN  [error |-> set.error,
       built |-> [name |-> name, kind |-> "command", description |-> set.description]]

\* new SlashCommandSubcommandGroupBuilder().setName(name)
\* ...setDescription(metaData.description)...
SubcommandGroupDescriptor(name, metaData) ==
  LET set == setDescription(Get(metaData, "description"))
  IN  [error |-> set.error,
       built |-> [name |-> name, kind |-> "group", description |-> set.description]]

\* new ContextMenuCommandBuilder().setName(info.name).setType(User)
UserDescriptor(command) ==
  [name |-> ContextCommandName(command), kind |-> "context",
   type |-> ApplicationCommandTypeUser, description |-> ""]

\* new ContextMenuCommandBuilder().setName(info.name).setType(Message)
MessageDescriptor(command) ==
  [name |-> ContextCommandName(command), kind |-> "context",
   type |-> ApplicationCommandTypeMessage, description |-> ""]

(***************************************************************************)
(* The body of the loop of each loader, for an entry that is a file.       *)
(* The result is [error, map, pushed, keys]: the error thrown (or Null),   *)
(* the registry after it, the descriptors pushed on commandData, and the   *)
(* dispatch keys the file resolved to.                                     *)
(***************************************************************************)
Skipped(map) == [error |-> Null, map |-> map, pushed |-> <<>>, keys |-> <<>>]
Failed(map, error, keys) == [error |-> error, map |-> map, pushed |-> <<>>, keys |-> keys]

NoDefaultExport == "Expected a default export"
NotASlashCommand == "Expected the default export to be a SlashCommand"
NotAUserCommand == "Expected the default export to be a UserCommand"
NotAMessageCommand == "Expected the default export to be a MessageCommand"
FolderInContextMenu == "Found folder, context menu commands cannot have subcommands"

ChatFile(map, mapName, command, descriptor) ==
  LET added == AddChatCommand(map, mapName, command)
  IN  IF added.error # Null THEN Failed(map, added.error, <<mapName>>)
      ELSE [error |-> Null, map |-> added.map, pushed |-> <<descriptor>>,
            keys |-> <<mapName>>]

loadTopLevelCommandsFile(map, entry, data) ==
  IF ~JSFileRegex(entry.name) THEN Skipped(map)
  ELSE IF Not(Get(data, "default")) THEN Failed(map, NoDefaultExport, <<>>)
  ELSE IF ~isChatCommand(Get(data, "default")) THEN Failed(map, NotASlashCommand, <<>>)
  ELSE ChatFile(map, TopLevelKey(data.default.value), data.default.value,
                ChatDescriptor(data.default.value))

\* The meta file of a directory: metaData after it.
MetaFile(metaData, data) == IF isCommandGroupMetadata(data) THEN data ELSE metaData

loadSubFolderLevelOneFile(map, name, entry, data) ==
  IF MetaFileRegex(entry.name) \/ ~JSFileRegex(entry.name) THEN Skipped(map)
  ELSE IF Not(Get(data, "default")) THEN Failed(map, NoDefaultExport, <<>>)
  ELSE IF ~isChatCommand(Get(data, "default")) THEN Failed(map, NotASlashCommand, <<>>)
  ELSE ChatFile(map, LevelOneKey(name, data.default.value), data.default.value,
                SubcommandDescriptor(data.default.value))

loadSubFolderLevelTwoFile(map, parentName, name, entry, data) ==
  IF MetaFileRegex(entry.name) \/ ~JSFileRegex(entry.name) THEN Skipped(map)
  ELSE IF Not(Get(data, "default")) THEN Failed(map, NoDefaultExport, <<>>)
  ELSE IF ~isChatCommand(Get(data, "default")) THEN Failed(map, NotASlashCommand, <<>>)
  ELSE ChatFile(map, LevelTwoKey(parentName, name, data.default.value), data.default.value,
                SubcommandDescriptor(data.default.value))

\* A variant of the loader of user/ that skips a folder.
loadUserCommandsEntrySkipsFolder(map, entry, data) ==
  IF ~entry.isFile \/ ~JSFileRegex(entry.name) THEN Skipped(map)
  ELSE IF Not(Get(data, "default")) THEN Failed(map, NoDefaultExport, <<>>)
  ELSE IF ~isUserCommand(Get(data, "default")) THEN Failed(map, NotAUserCommand, <<>>)
  ELSE [error |-> Null, map |-> AddUserCommand(map, data.default.value).map,
        pushed |-> <<UserDescriptor(data.default.value)>>,
        keys |-> <<ContextCommandName(data.default.value)>>]

loadUserCommandsEntry(map, entry, data) ==
  IF ~entry.isFile THEN Failed(map, FolderInContextMenu, <<>>)
  ELSE IF ~JSFileRegex(entry.name) THEN Skipped(map)
  ELSE IF Not(Get(data, "default")) THEN Failed(map, NoDefaultExport, <<>>)
  ELSE IF ~isUserCommand(Get(data, "default")) THEN Failed(map, NotAUserCommand, <<>>)
  ELSE [error |-> Null, map |-> AddUserCommand(map, data.default.value).map,
        pushed |-> <<UserDescriptor(data.default.value)>>,
        keys |-> <<ContextCommandName(data.default.value)>>]

loadMessageCommandsEntry(map, entry, data) ==
  IF ~entry.isFile THEN Failed(map, FolderInContextMenu, <<>>)
  ELSE IF ~JSFileRegex(entry.name) THEN Skipped(map)
  ELSE IF Not(Get(data, "default")) THEN Failed(map, NoDefaultExport, <<>>)
  ELSE IF ~isMessageCommand(Get(data, "default")) THEN Failed(map, NotAMessageCommand, <<>>)
  ELSE [error |-> Null, map |-> AddMessageCommand(map, data.default.value).map,
        pushed |-> <<MessageDescriptor(data.default.value)>>,
        keys |-> <<ContextCommandName(data.default.value)>>]

(***************************************************************************)
(* Bounds of the model.                                                    *)
(***************************************************************************)
\* calls of registerCommandsFrom / registerGuildCommandsFrom on one client
MaxLoads == 2
\* entries of one directory
MaxEntries == 2

(***************************************************************************)
(* The state of a client.                                                  *)
(*   commandMap, userContextMenuMap, messageContextMenuMap  the registries *)
(*   chatCommandMiddleware, autocompleteMiddleware, contextMenuMiddleware  *)
(*             the three pipelines: the middleware pushed, in order        *)
(*   used      the history of the calls of useCommandMiddleware,           *)
(*             useAutocompleteMiddleware and useContextMenuMiddleware: the *)
(*             middleware each was given, in call order                    *)
(*   load      the call of register(Guild)CommandsFrom or                  *)
(*             registerPagesFrom that runs: where it is in the tree (pc),  *)
(*             its arguments (guildId, register, token) and the locals of  *)
(*             the loaders on its stack.  chatKeys, userKeys and           *)
(*             messageKeys count, per dispatch key, the command files the  *)
(*             call has read that resolve to it.  Of commandData the model *)
(*             keeps nothing but the push of each step (last.pushed).      *)
(*   suspended the other calls in progress, each waiting at an await for   *)
(*             the event loop to resume it: nothing in the client keeps a  *)
(*             caller from making a call while another is in progress      *)
(*   loads     the calls of register(Guild)CommandsFrom made               *)
(*   restPuts  the calls of rest.put made                                  *)
(*   last      what the last operation did, as its caller observes it      *)
(*   calls     the calls of handleCommand and handleAutocomplete that have *)
(*             found their command and wait, in call order: for their      *)
(*             validation pass (`await command.validateAndTransformOptions *)
(*             (...)`: the command found and the outcome of the pass), or  *)
(*             for their reply or execution (`await replyToInteraction     *)
(*             (...)`, `await pipeline.execute(...)`: what the call will   *)
(*             have done when it returns)                                  *)
(*   skipAutocompleteValidationAndTransformation  the constructor option   *)
(*             skipValidationAndTransformationForAutocomplete, or false    *)
(*   pageMap   the page type registry, from pageId to the page type        *)
(*   activePages  the page cache: its TTL, its entries (cache) and the     *)
(*             time left on the idle timer of each entry (timers)          *)
(*   pageLife  per key set in the cache and not deleted since: the time    *)
(*             since it was set (age, counted up to twice the TTL), the    *)
(*             time since it was last set or hit by get (idle) and the     *)
(*             calls of pageWillLeaveCache made for it (hooks); time stops *)
(*             for a key when its entry leaves the cache                   *)
(*   storePageState, getPageState  the two persistence functions           *)
(***************************************************************************)
VARIABLES commandMap, userContextMenuMap, messageContextMenuMap,
          chatCommandMiddleware, autocompleteMiddleware, contextMenuMiddleware,
          used, load, suspended, loads, restPuts, last, calls,
          skipAutocompleteValidationAndTransformation,
          pageMap, activePages, pageLife, storePageState, getPageState

registries == <<commandMap, userContextMenuMap, messageContextMenuMap>>
pipelines == <<chatCommandMiddleware, autocompleteMiddleware, contextMenuMiddleware, used>>
clientOptions == <<skipAutocompleteValidationAndTransformation>>
pages == <<pageMap, activePages, pageLife, storePageState, getPageState>>
vars == <<commandMap, userContextMenuMap, messageContextMenuMap,
          chatCommandMiddleware, autocompleteMiddleware, contextMenuMiddleware,
          used, load, suspended, loads, restPuts, last, calls, clientOptions, pages>>

EmptyMap == [k \in {} |-> Undefined]
NoneUsed == [chat |-> <<>>, autocomplete |-> <<>>, context |-> <<>>]

\* Counting the keys read: one more file resolves to each key of `keys`.
Count(bag, key) == IF key \in DOMAIN bag THEN bag[key] ELSE 0
Counted(bag, keys) ==
  [k \in DOMAIN bag \cup {keys[i] : i \in DOMAIN keys} |->
     Count(bag, k) + Cardinality({i \in DOMAIN keys : keys[i] = k})]

IdleLoad ==
  [pc |-> "idle", guildId |-> Undefined, register |-> FALSE, token |-> Undefined,
   visited |-> {}, chatKeys |-> EmptyMap, userKeys |-> EmptyMap, messageKeys |-> EmptyMap,
   seen |-> {},
   name1 |-> "", seen1 |-> {}, meta1 |-> DefaultMetaData,
   name2 |-> "", seen2 |-> {}, meta2 |-> DefaultMetaData]

\* The field initialisers: empty registries and pipelines, nothing loaded.
NoCommands ==
  /\ commandMap = EmptyMap
  /\ userContextMenuMap = EmptyMap
  /\ messageContextMenuMap = EmptyMap
  /\ chatCommandMiddleware = <<>>
  /\ autocompleteMiddleware = <<>>
  /\ contextMenuMiddleware = <<>>
  /\ used = NoneUsed
  /\ load = IdleLoad
  /\ suspended = <<>>
  /\ loads = 0
  /\ restPuts = 0
  /\ calls = <<>>

\* options.key ?? default: the default is taken when the option is not
\* given and when it is given as undefined or null.
OrDefault(options, key, default) ==
  LET option == Get(options, key)
  IN  IF option.typeof = "undefined" \/ (option.typeof = "object" /\ option.value = Null)
        THEN default
        ELSE option.value

DefaultPageTtl == 30000

\* A variant of the hook that calls nothing.
pageWillLeaveCacheNever(page) == <<>>

\* (page) => page.pageWillLeaveCache?.(): the pages that define the hook are
\* the hooked ones.
pageWillLeaveCache(page) ==
  IF page = "hooked" THEN << [at |-> "pageWillLeaveCache", who |-> page] >> ELSE <<>>

\* new PingableTimedCache(ttl, hook)
PingableTimedCache(ttl) == [ttl |-> ttl, cache |-> EmptyMap, timers |-> EmptyMap]

\* throw new Error(`You must implement storePageState and getPageState in
\* order to use pages`)
PagesNotImplemented ==
  "You must implement storePageState and getPageState in order to use pages"

\* A variant of defaultPageStore that does nothing.
defaultPageStoreNoop == [name |-> "defaultPageStore", throws |-> Null]

\* The functions the client falls back on: both throw.  A function is
\* [name, throws], throws the message of the error it throws or Null.
defaultPageStore == [name |-> "defaultPageStore", throws |-> PagesNotImplemented]
defaultPageGet == [name |-> "defaultPageGet", throws |-> PagesNotImplemented]

\* new SlashasaurusClient(connector, options); options has the keys that
\* were given, each with its value and the type of the value.
SlashasaurusClient(options) ==
  /\ activePages = PingableTimedCache(OrDefault(options, "pageTtl", DefaultPageTtl))
  /\ storePageState = OrDefault(options, "storePageState", defaultPageStore)
  /\ getPageState = OrDefault(options, "getPageState", defaultPageGet)
  /\ skipAutocompleteValidationAndTransformation =
       OrDefault(options, "skipValidationAndTransformationForAutocomplete", FALSE)
  /\ pageMap = EmptyMap
  /\ pageLife = EmptyMap

\* The options that name the client only.
NoOption == [client |-> Export("object", "client")]

\* The options that name the client and give one more option.
OneOption(key, typeof, value) ==
  [k \in {"client", key} |-> IF k = key THEN Export(typeof, value) ELSE NoOption.client]

\* The two ways of giving an option no value.
Nullish == {<<"undefined", Undefined>>, <<"object", Null>>}

Init ==
  /\ NoCommands
  /\ SlashasaurusClient(NoOption)
  /\ last = [op |-> "new"]

Tokens == {Undefined, "", "token"}
GuildIds == {"guild"}

\* A step of a load that does not end it: what it pushed on commandData.
Loading(pushed) == [op |-> "loading", pushed |-> pushed]

\* A call made while another is in progress: the running one is suspended.
Suspend(waiting, running) ==
  IF running.pc = "idle" THEN waiting ELSE Append(waiting, running)

\* A variant of registerCommandsFrom that loads into a map of its own.
registerCommandsFromFreshMap(register, token) ==
  /\ UNCHANGED <<pipelines, calls, clientOptions, pages>>
  /\ loads < MaxLoads
  /\ load' = [IdleLoad EXCEPT !.pc = "root", !.register = register, !.token = token]
  /\ suspended' = Suspend(suspended, load)
  /\ loads' = loads + 1
  /\ last' = Loading(<<>>)
  /\ commandMap' = EmptyMap
  /\ UNCHANGED <<userContextMenuMap, messageContextMenuMap, restPuts>>

\* The first lines of registerCommandsFrom(folderPath, register, token), up to
\* `await readdir(folderPath)`.
registerCommandsFrom(register, token) ==
  /\ UNCHANGED <<pipelines, calls, clientOptions, pages>>
  /\ loads < MaxLoads
  /\ load' = [IdleLoad EXCEPT !.pc = "root", !.register = register, !.token = token]
  /\ suspended' = Suspend(suspended, load)
  /\ loads' = loads + 1
  /\ last' = Loading(<<>>)
  /\ UNCHANGED <<registries, restPuts>>

registerGuildCommandsFrom(guildId, register, token) ==
  /\ UNCHANGED <<pipelines, calls, clientOptions, pages>>
  /\ loads < MaxLoads
  /\ load' = [IdleLoad EXCEPT !.pc = "root", !.guildId = guildId,
                              !.register = register, !.token = token]
  /\ suspended' = Suspend(suspended, load)
  /\ loads' = loads + 1
  /\ last' = Loading(<<>>)
  /\ UNCHANGED <<registries, restPuts>>

\* The event loop resumes a suspended call: the promise it awaits (readdir,
\* stat, import, rest.put) has settled.  The call that ran, if it has not
\* ended, waits in its turn.
resume(i) ==
  /\ i \in DOMAIN suspended
  /\ load' = suspended[i]
  /\ suspended' = Suspend(SubSeq(suspended, 1, i - 1)
                            \o SubSeq(suspended, i + 1, Len(suspended)), load)
  /\ UNCHANGED <<registries, pipelines, loads, restPuts, last, calls, clientOptions, pages>>

\* What the caller of register(Guild)CommandsFrom observes when the call ends;
\* entry and data are the file at which a loader threw.
Outcome(l, outcome, error, put) ==
  [op |-> "register", outcome |-> outcome, error |-> error, put |-> put,
   guildId |-> l.guildId, register |-> l.register, token |-> l.token,
   chatKeys |-> l.chatKeys, userKeys |-> l.userKeys, messageKeys |-> l.messageKeys,
   folder |-> Null, entry |-> Null, data |-> Null]

\* An error thrown in a loader rejects the call; nothing catches it.
Reject(l, error, folderOrFile, data) ==
  /\ load' = IdleLoad
  /\ last' = [Outcome(l, "rejected", error, FALSE) EXCEPT
                !.folder = l.pc, !.entry = folderOrFile, !.data = data]
  /\ UNCHANGED <<loads, suspended, restPuts>>

\* case 'chat' / 'message' / 'user' of the loop over the top level folders
enterFolder(folderName) ==
  /\ load.pc = "root"
  /\ UNCHANGED <<pipelines, calls, clientOptions, pages>>
  /\ folderName \in {"chat", "message", "user"} \ load.visited
  /\ load' = [load EXCEPT !.pc = folderName, !.seen = {}]
  /\ last' = Loading(<<>>)
  /\ UNCHANGED <<registries, loads, suspended, restPuts>>

\* One iteration of the loop of loadTopLevelCommands.
loadTopLevelCommands(folderOrFile, data) ==
  /\ load.pc = "chat"
  /\ UNCHANGED <<pipelines, calls, clientOptions, pages>>
  /\ folderOrFile \in ChatEntries \ load.seen
  /\ Cardinality(load.seen) < MaxEntries
  /\ data \in Import("chat", folderOrFile)
  /\ UNCHANGED <<userContextMenuMap, messageContextMenuMap>>
  /\ IF folderOrFile.isFile
       THEN LET r == loadTopLevelCommandsFile(commandMap, folderOrFile, data)
                l == [load EXCEPT !.seen = @ \cup {folderOrFile},
                                  !.chatKeys = Counted(@, r.keys)]
            IN  /\ commandMap' = r.map
                /\ IF r.error # Null THEN Reject(l, r.error, folderOrFile, data)
                   ELSE /\ load' = l
                        /\ last' = Loading(r.pushed)
                        /\ UNCHANGED <<loads, suspended, restPuts>>
       ELSE /\ load' = [load EXCEPT !.seen = @ \cup {folderOrFile},
                                    !.pc = "one", !.name1 = folderOrFile.folder,
                                    !.seen1 = {}, !.meta1 = DefaultMetaData]
            /\ last' = Loading(<<>>)
            /\ UNCHANGED <<commandMap, loads, suspended, restPuts>>

\* One iteration of the loop of loadSubFolderLevelOne.
loadSubFolderLevelOne(folderOrFile, data) ==
  /\ load.pc = "one"
  /\ UNCHANGED <<pipelines, calls, clientOptions, pages>>
  /\ folderOrFile \in LevelOneEntries \ load.seen1
  /\ Cardinality(load.seen1) < MaxEntries
  /\ data \in Import("chat", folderOrFile)
  /\ UNCHANGED <<userContextMenuMap, messageContextMenuMap>>
  /\ IF folderOrFile.isFile
       THEN LET r == loadSubFolderLevelOneFile(commandMap, load.name1, folderOrFile, data)
                l == [load EXCEPT !.seen1 = @ \cup {folderOrFile},
                                  !.meta1 = IF MetaFileRegex(folderOrFile.name)
                                            THEN MetaFile(@, data) ELSE @,
                                  !.chatKeys = Counted(@, r.keys)]
            IN  /\ commandMap' = r.map
                /\ IF r.error # Null THEN Reject(l, r.error, folderOrFile, data)
                   ELSE /\ load' = l
                        /\ last' = Loading(r.pushed)
                        /\ UNCHANGED <<loads, suspended, restPuts>>
       ELSE /\ load' = [load EXCEPT !.seen1 = @ \cup {folderOrFile},
                                    !.pc = "two", !.name2 = folderOrFile.folder,
                                    !.seen2 = {}, !.meta2 = DefaultMetaData]
            /\ last' = Loading(<<>>)
            /\ UNCHANGED <<commandMap, loads, suspended, restPuts>>

\* One iteration of the loop of loadSubFolderLevelTwo: a directory is passed over.
loadSubFolderLevelTwo(folderOrFile, data) ==
  /\ load.pc = "two"
  /\ UNCHANGED <<pipelines, calls, clientOptions, pages>>
  /\ folderOrFile \in LevelTwoEntries \ load.seen2
  /\ Cardinality(load.seen2) < MaxEntries
  /\ data \in Import("chat", folderOrFile)
  /\ UNCHANGED <<userContextMenuMap, messageContextMenuMap>>
  /\ LET r == IF folderOrFile.isFile
                THEN loadSubFolderLevelTwoFile(commandMap, load.name1, load.name2,
                                               folderOrFile, data)
                ELSE Skipped(commandMap)
         l == [load EXCEPT !.seen2 = @ \cup {folderOrFile},
                           !.meta2 = IF folderOrFile.isFile /\ MetaFileRegex(folderOrFile.name)
                                     THEN MetaFile(@, data) ELSE @,
                           !.chatKeys = Counted(@, r.keys)]
     IN  /\ commandMap' = r.map
         /\ IF r.error # Null THEN Reject(l, r.error, folderOrFile, data)
            ELSE /\ load' = l
                 /\ last' = Loading(r.pushed)
                 /\ UNCHANGED <<loads, suspended, restPuts>>

\* The end of loadSubFolderLevelTwo, after the loop: the subcommand group
\* builder is made from the name of the directory and metaData.  A setter that
\* throws rejects the call, as an error of the loop does; else the builder is
\* returned and pushed on the commandData of loadSubFolderLevelOne.
returnLevelTwo ==
  /\ load.pc = "two"
  /\ UNCHANGED <<pipelines, calls, clientOptions, pages>>
  /\ UNCHANGED registries
  /\ LET builder == SubcommandGroupDescriptor(load.name2, load.meta2)
     IN  IF builder.error # Null
           THEN Reject(load, builder.error, Directory(load.name2), load.meta2)
           ELSE /\ load' = [load EXCEPT !.pc = "one", !.name2 = "", !.seen2 = {},
                                        !.meta2 = DefaultMetaData]
                /\ last' = Loading(<<builder.built>>)
                /\ UNCHANGED <<loads, suspended, restPuts>>

\* The end of loadSubFolderLevelOne, after the loop: the command builder is
\* made from the name of the directory and metaData.  A setter that throws
\* rejects the call; else the builder is returned and pushed on the
\* commandData of loadTopLevelCommands.
returnLevelOne ==
  /\ load.pc = "one"
  /\ UNCHANGED <<pipelines, calls, clientOptions, pages>>
  /\ UNCHANGED registries
  /\ LET builder == GroupedCommandDescriptor(load.name1, load.meta1)
     IN  IF builder.error # Null
           THEN Reject(load, builder.error, Directory(load.name1), load.meta1)
           ELSE /\ load' = [load EXCEPT !.pc = "chat", !.name1 = "", !.seen1 = {},
                                        !.meta1 = DefaultMetaData]
                /\ last' = Loading(<<builder.built>>)
                /\ UNCHANGED <<loads, suspended, restPuts>>

\* One iteration of the loop of loadUserCommands.
loadUserCommands(folderOrFile, data) ==
  /\ load.pc = "user"
  /\ UNCHANGED <<pipelines, calls, clientOptions, pages>>
  /\ folderOrFile \in UserEntries \ load.seen
  /\ Cardinality(load.seen) < MaxEntries
  /\ data \in Import("user", folderOrFile)
  /\ UNCHANGED <<commandMap, messageContextMenuMap>>
  /\ LET r == loadUserCommandsEntry(userContextMenuMap, folderOrFile, data)
         l == [load EXCEPT !.seen = @ \cup {folderOrFile},
                           !.userKeys = Counted(@, r.keys)]
     IN  /\ userContextMenuMap' = r.map
         /\ IF r.error # Null THEN Reject(l, r.error, folderOrFile, data)
            ELSE /\ load' = l
                 /\ last' = Loading(r.pushed)
                 /\ UNCHANGED <<loads, suspended, restPuts>>

\* One iteration of the loop of loadMessageCommands.
loadMessageCommands(folderOrFile, data) ==
  /\ load.pc = "message"
  /\ UNCHANGED <<pipelines, calls, clientOptions, pages>>
  /\ folderOrFile \in MessageEntries \ load.seen
  /\ Cardinality(load.seen) < MaxEntries
  /\ data \in Import("message", folderOrFile)
  /\ UNCHANGED <<commandMap, userContextMenuMap>>
  /\ LET r == loadMessageCommandsEntry(messageContextMenuMap, folderOrFile, data)
         l == [load EXCEPT !.seen = @ \cup {folderOrFile},
                           !.messageKeys = Counted(@, r.keys)]
     IN  /\ messageContextMenuMap' = r.map
         /\ IF r.error # Null THEN Reject(l, r.error, folderOrFile, data)
            ELSE /\ load' = l
                 /\ last' = Loading(r.pushed)
                 /\ UNCHANGED <<loads, suspended, restPuts>>

\* The end of a top level loader: commandData.push(...(await this.loadX(...))).
returnFolder ==
  /\ load.pc \in {"chat", "message", "user"}
  /\ UNCHANGED <<pipelines, calls, clientOptions, pages>>
  /\ load' = [load EXCEPT !.pc = "root", !.visited = @ \cup {load.pc}, !.seen = {}]
  /\ last' = Loading(<<>>)
  /\ UNCHANGED <<registries, loads, suspended, restPuts>>

\* if (register && token): register is a boolean, token a string, null or
\* undefined, and the empty string is falsy.
Registers(register, token) == register /\ token \notin {Undefined, Null, ""}

\* The end of register(Guild)CommandsFrom, after the loop over the folders:
\* the call makes the rest.put and waits for it (`await rest.put(...)`), or
\* makes none and resolves.
finishRegister ==
  /\ load.pc = "root"
  /\ UNCHANGED <<pipelines, calls, clientOptions, pages>>
  /\ IF Registers(load.register, load.token)
       THEN /\ restPuts' = restPuts + 1
            /\ load' = [load EXCEPT !.pc = "put"]
            /\ last' = Loading(<<>>)
       ELSE /\ restPuts' = restPuts
            /\ load' = IdleLoad
            /\ last' = Outcome(load, "resolved", Null, FALSE)
  /\ UNCHANGED <<registries, loads, suspended>>

\* The error a rest.put that fails rejects with.
RestPutError == "rest.put failed"

\* The promise of rest.put settles: when it is fulfilled the call resolves,
\* when it is rejected the call is rejected with its error; nothing catches it.
restPutSettles(fulfilled) ==
  /\ load.pc = "put"
  /\ UNCHANGED <<pipelines, calls, clientOptions, pages>>
  /\ load' = IdleLoad
  /\ last' = IF fulfilled THEN Outcome(load, "resolved", Null, TRUE)
                          ELSE Outcome(load, "rejected", RestPutError, TRUE)
  /\ UNCHANGED <<registries, loads, suspended, restPuts>>

(***************************************************************************)
(* The middleware pipeline.  A middleware is user code that wraps the next *)
(* function of the chain: it runs its pre-logic, calls next (or does not), *)
(* and runs its post-logic when next has returned.  A pipeline is the      *)
(* sequence of the middleware pushed on it.                                *)
(***************************************************************************)
Middlewares == {"A", "B"}

\* calls of useCommandMiddleware / useAutocompleteMiddleware /
\* useContextMenuMiddleware on one client
MaxMiddleware == 2

\* Pipeline.push(fn)
push(stack, fn) == Append(stack, fn)

NoExecution == [events |-> <<>>, replies |-> <<>>, thrown |-> Null]

\* interaction.reply({ content: 'This command is not implemented yet', ephemeral: true })
NotImplementedReply ==
  [content |-> "This command is not implemented yet", ephemeral |-> TRUE]

\* interaction.respond([{ name: "This interaction isn't implemented yet", value: 'error' }])
NotImplementedResponse ==
  [content |-> "This interaction isn't implemented yet", ephemeral |-> FALSE]

\* The handlers of the application that fail: the run of the message command
\* M1 throws an Error.
FailingHandlers == {"M1.run"}

\* Calling the terminal handler.  Calling what is not a function throws a
\* TypeError; the two prototype methods answer the interaction; any other
\* handler is user code, of which the model records the call and whether it
\* throws.
Invoke(handler) ==
  IF handler = Undefined THEN [NoExecution EXCEPT !.thrown = "TypeError"]
  ELSE [events  |-> << [at |-> "handler", who |-> handler] >>,
        replies |-> IF handler = DefaultRun THEN <<NotImplementedReply>>
                    ELSE IF handler = DefaultAutocomplete THEN <<NotImplementedResponse>>
                    ELSE <<>>,
        thrown  |-> IF handler \in FailingHandlers THEN "Error" ELSE Null]

\* Pipeline.execute(handler, ...args): the chain, as it is when execute is
\* called, folded around the handler, the middleware pushed first outermost
\* (the order of the ordering property in section 8 of the specification;
\* the class is not among the sources).  callsNext is the set of the
\* middleware that call next; an error thrown inside propagates through
\* every middleware that awaits next.
RECURSIVE execute(_, _, _, _)
execute(stack, i, handler, callsNext) ==
  IF i > Len(stack) THEN Invoke(handler)
  ELSE LET pre  == [at |-> "pre", who |-> stack[i]]
           post == [at |-> "post", who |-> stack[i]]
           next == execute(stack, i + 1, handler, callsNext)
       IN  IF stack[i] \notin callsNext
             THEN [NoExecution EXCEPT !.events = <<pre, post>>]
           ELSE IF next.thrown # Null
             THEN [next EXCEPT !.events = <<pre>> \o @]
           ELSE [next EXCEPT !.events = <<pre>> \o @ \o <<post>>]

(***************************************************************************)
(* The dispatcher.  What a call of handleCommand, handleAutocomplete or    *)
(* handleContextMenu does, as its caller and the user observe it:          *)
(*   args, callsNext  the interaction (or the type, or the focused option  *)
(*            name and the interaction) the call was given, and the        *)
(*            middleware that call next                                    *)
(*   result   "true", "false" or "undefined": the value the call resolves  *)
(*            to, or Thrown when it rejects with the error `thrown`        *)
(*   pass     the validation pass the call ran (kind "none": it ran none)  *)
(*   replies  the replies sent on the interaction, in order                *)
(*   events   the middleware and handler code that ran, in order           *)
(*   failed   the error the execution of the pipeline ended with, or Null   *)
(*   returnedAfter  how many of the events had happened when the call      *)
(*            returned: all of them when the call awaits the execution     *)
(***************************************************************************)
NoPass ==
  [kind |-> "none", errors |-> <<>>, assigned |-> {},
   vcalls |-> <<>>, tcalls |-> <<>>, thrown |-> Null]

PassOf(optionsObj) ==
  [kind |-> optionsObj.kind, errors |-> optionsObj.errors, assigned |-> optionsObj.assigned,
   vcalls |-> optionsObj.vcalls, tcalls |-> optionsObj.tcalls, thrown |-> optionsObj.thrown]

Handled(op, name, args, callsNext, result, thrown, pass, execution) ==
  [op |-> op, name |-> name, args |-> args, callsNext |-> callsNext,
   result |-> result, thrown |-> thrown,
   pass |-> pass, replies |-> execution.replies, events |-> execution.events,
   failed |-> execution.thrown, returnedAfter |-> Len(execution.events)]

\* Array.prototype.join
RECURSIVE join(_, _)
join(array, separator) ==
  IF Len(array) = 0 THEN ""
  ELSE IF Len(array) = 1 THEN array[1]
  ELSE array[1] \o separator \o join(Tail(array), separator)

\* A variant of the reply that reports the first error only.
ErrorsReplyFirst(errors) == [content |-> errors[1], ephemeral |-> TRUE]

\* replyToInteraction(interaction, { content: optionsObj.join('\n'), flags: 1 << 6 }):
\* bit 6 of the flags is the ephemeral flag.
ErrorsReply(errors) == [content |-> join(errors, "\n"), ephemeral |-> TRUE]

\* A variant in which the second argument is falsy.
ConnectorAsFalse == FALSE

\* handleCommand and handleAutocomplete pass this.connector, an object, where
\* validateAndTransformOptions takes skipRequiredCheck: the parameter is truthy.
ConnectorAsSkipRequiredCheck == TRUE

\* A call that waits for its validation pass: the command it found under
\* the name and the pass, which reads the command and the interaction only.
Awaiting(op, name, args, command, optionsObj) ==
  [name |-> name, command |-> command, op |-> op, optionsObj |-> optionsObj, args |-> args]

\* handleCommand up to the await: this.commandMap.get(name) and, when there is
\* a command, command.validateAndTransformOptions(interaction, this.connector).
handleCommandPass(map, name, interaction) ==
  Awaiting("handleCommand", name, interaction, map[name],
           validateAndTransformOptions(ChatCommand(map[name]), interaction,
                                       ConnectorAsSkipRequiredCheck))

\* handleCommand after the await: the pass has thrown, or its errors are
\* replied, or the pipeline, as it is by then, is executed around command.run.
handleCommandRest(call, pipeline, callsNext) ==
  LET optionsObj == call.optionsObj
      ran == execute(pipeline, 1, ChatCommand(call.command).run, callsNext)
  IN  IF optionsObj.kind = "throw"
        THEN Handled("handleCommand", call.name, call.args, callsNext, Thrown,
                     optionsObj.thrown, PassOf(optionsObj), NoExecution)
      ELSE IF optionsObj.kind = "errors"
        THEN Handled("handleCommand", call.name, call.args, callsNext, "undefined", Null,
                     PassOf(optionsObj),
                     [NoExecution EXCEPT !.replies = <<ErrorsReply(optionsObj.errors)>>])
      ELSE IF ran.thrown # Null
        THEN Handled("handleCommand", call.name, call.args, callsNext, Thrown, ran.thrown,
                     PassOf(optionsObj), ran)
      ELSE Handled("handleCommand", call.name, call.args, callsNext, "true", Null,
                   PassOf(optionsObj), ran)

\* A call of handleCommand during which nothing else is called.
handleCommandCall(map, pipeline, name, interaction, callsNext) ==
  IF name \notin DOMAIN map
    THEN Handled("handleCommand", name, interaction, callsNext, "false", Null, NoPass, NoExecution)
    ELSE handleCommandRest(handleCommandPass(map, name, interaction), pipeline, callsNext)

\* The handler of an option's onAutocomplete, wrapped in the arrow function.
OnAutocomplete(focusedName) == focusedName \o ".onAutocomplete"

\* A variant of the routing that always takes the command's handler.
AutocompleteHandlerOfCommand(command, focusedName) == command.autocomplete

\* autocompleteFn = command.autocompleteMap.get(focusedName): the handler the
\* pipeline is executed around is the option's when it has one, wrapped in an
\* arrow function, and command.autocomplete otherwise.
AutocompleteHandler(command, focusedName) ==
  IF focusedName \in command.autocompleteMap
    THEN OnAutocomplete(focusedName) ELSE command.autocomplete

\* validateAndTransformOptions(interaction, this.connector, true,
\* this.skipAutocompleteValidationAndTransformation): the function has the
\* two parameters interaction and skipRequiredCheck, and a call binds its
\* first two arguments to them.
handleAutocompletePass(map, skip, name, focusedName, interaction) ==
  LET passed == <<interaction, ConnectorAsSkipRequiredCheck, TRUE, skip>>
  IN  Awaiting("handleAutocomplete", name,
               [interaction |-> interaction, focusedName |-> focusedName], map[name],
               validateAndTransformOptions(ChatCommand(map[name]), passed[1], passed[2]))

\* handleAutocomplete after the await: the pass has thrown, or the pipeline,
\* as it is by then, is executed around the routed handler.
handleAutocompleteRest(call, pipeline, callsNext) ==
  LET optionsObj == call.optionsObj
      ran == execute(pipeline, 1,
                     AutocompleteHandler(ChatCommand(call.command), call.args.focusedName),
                     callsNext)
  IN  IF optionsObj.kind = "throw"
        THEN Handled("handleAutocomplete", call.name, call.args, callsNext, Thrown,
                     optionsObj.thrown, PassOf(optionsObj), NoExecution)
      ELSE IF ran.thrown # Null
        THEN Handled("handleAutocomplete", call.name, call.args, callsNext, Thrown, ran.thrown,
                     PassOf(optionsObj), ran)
      ELSE Handled("handleAutocomplete", call.name, call.args, callsNext, "true", Null,
                   PassOf(optionsObj), ran)

\* A call of handleAutocomplete during which nothing else is called.
handleAutocompleteCall(map, pipeline, skip, name, focusedName, interaction, callsNext) ==
  IF name \notin DOMAIN map
    THEN Handled("handleAutocomplete", name,
                 [interaction |-> interaction, focusedName |-> focusedName],
                 callsNext, "false", Null, NoPass, NoExecution)
    ELSE handleAutocompleteRest(handleAutocompletePass(map, skip, name, focusedName, interaction),
                                pipeline, callsNext)

\* The run handler of a context menu command.
ContextRun(command) == command \o ".run"

\* type === 2 ? this.messageContextMenuMap.get(name) : this.userContextMenuMap.get(name)
ContextMenuMapFor(type, userMap, messageMap) == IF type = 2 THEN messageMap ELSE userMap

\* A variant of handleContextMenu that awaits the execution.
handleContextMenuCallAwaited(userMap, messageMap, pipeline, name, type, callsNext) ==
  LET map == ContextMenuMapFor(type, userMap, messageMap)
      ran == execute(pipeline, 1, ContextRun(map[name]), callsNext)
  IN  IF name \notin DOMAIN map
        THEN Handled("handleContextMenu", name, type, callsNext, "false", Null, NoPass, NoExecution)
      ELSE IF ran.thrown # Null
        THEN Handled("handleContextMenu", name, type, callsNext, Thrown, ran.thrown, NoPass, ran)
      ELSE Handled("handleContextMenu", name, type, callsNext, "true", Null, NoPass, ran)

\* this.contextMenuMiddleware.execute(command.run, interaction, this) is not
\* awaited: the call returns true whatever becomes of the execution.
handleContextMenuCall(userMap, messageMap, pipeline, name, type, callsNext) ==
  LET map == ContextMenuMapFor(type, userMap, messageMap)
  IN  IF name \notin DOMAIN map
        THEN Handled("handleContextMenu", name, type, callsNext, "false", Null, NoPass, NoExecution)
      ELSE Handled("handleContextMenu", name, type, callsNext, "true", Null, NoPass,
                   execute(pipeline, 1, ContextRun(map[name]), callsNext))

\* The interactions of one class that carry, for each of the option names,
\* one of the values.
Interactions(class, names, values) ==
  {[class |-> class, options |-> o] : o \in [names -> values]}

\* The options a registered command declares (none when there is no command).
OptionNamesAt(map, name) ==
  IF name \in DOMAIN map
    THEN {ChatCommandInfo(map[name]).options[i].name :
            i \in DOMAIN ChatCommandInfo(map[name]).options}
    ELSE {}

\* A variant of useCommandMiddleware that puts the middleware first.
useCommandMiddlewareFirst(fn) ==
  /\ Len(chatCommandMiddleware) + Len(autocompleteMiddleware)
       + Len(contextMenuMiddleware) < MaxMiddleware
  /\ chatCommandMiddleware' = <<fn>> \o chatCommandMiddleware
  /\ used' = [used EXCEPT !.chat = Append(@, fn)]
  /\ last' = [op |-> "useCommandMiddleware", fn |-> fn]
  /\ UNCHANGED <<registries, autocompleteMiddleware, contextMenuMiddleware,
                 load, loads, suspended, restPuts, calls, clientOptions, pages>>

useCommandMiddleware(fn) ==
  /\ Len(chatCommandMiddleware) + Len(autocompleteMiddleware)
       + Len(contextMenuMiddleware) < MaxMiddleware
  /\ chatCommandMiddleware' = push(chatCommandMiddleware, fn)
  /\ used' = [used EXCEPT !.chat = Append(@, fn)]
  /\ last' = [op |-> "useCommandMiddleware", fn |-> fn]
  /\ UNCHANGED <<registries, autocompleteMiddleware, contextMenuMiddleware,
                 load, loads, suspended, restPuts, calls, clientOptions, pages>>

useAutocompleteMiddleware(fn) ==
  /\ Len(chatCommandMiddleware) + Len(autocompleteMiddleware)
       + Len(contextMenuMiddleware) < MaxMiddleware
  /\ autocompleteMiddleware' = push(autocompleteMiddleware, fn)
  /\ used' = [used EXCEPT !.autocomplete = Append(@, fn)]
  /\ last' = [op |-> "useAutocompleteMiddleware", fn |-> fn]
  /\ UNCHANGED <<registries, chatCommandMiddleware, contextMenuMiddleware,
                 load, loads, suspended, restPuts, calls, clientOptions, pages>>

useContextMenuMiddleware(fn) ==
  /\ Len(chatCommandMiddleware) + Len(autocompleteMiddleware)
       + Len(contextMenuMiddleware) < MaxMiddleware
  /\ contextMenuMiddleware' = push(contextMenuMiddleware, fn)
  /\ used' = [used EXCEPT !.context = Append(@, fn)]
  /\ last' = [op |-> "useContextMenuMiddleware", fn |-> fn]
  /\ UNCHANGED <<registries, chatCommandMiddleware, autocompleteMiddleware,
                 load, loads, suspended, restPuts, calls, clientOptions, pages>>

\* calls of handleCommand and handleAutocomplete that wait at one time
MaxCalls == 2

\* What the caller of a call that waits observes: nothing yet.
Waiting(op, name) == [name |-> name, op |-> "await", of |-> op]

\* A call that has sent its reply or started its execution and waits for it
\* (`await replyToInteraction(...)`, `await pipeline.execute(...)`): what it
\* will have done when it returns.
Settling(handled) == [name |-> handled.name, op |-> handled.op, handled |-> handled]

\* The await a call waits at: "pass" for the validation pass, "execute" for
\* the reply or the execution.
AwaitOf(call) == IF "handled" \in DOMAIN call THEN "execute" ELSE "pass"

\* Taking the call at position i out of the calls that wait.
Without(waiting, i) == SubSeq(waiting, 1, i - 1) \o SubSeq(waiting, i + 1, Len(waiting))

\* handleCommand(name, interaction) up to its first await: false when no
\* command has the name, else the call waits for its validation pass.
handleCommand(name, interaction) ==
  /\ IF name \notin DOMAIN commandMap
       THEN /\ last' = handleCommandCall(commandMap, chatCommandMiddleware, name,
                                         interaction, {})
            /\ calls' = calls
       ELSE /\ Len(calls) < MaxCalls
            /\ calls' = Append(calls, handleCommandPass(commandMap, name, interaction))
            /\ last' = Waiting("handleCommand", name)
  /\ UNCHANGED <<registries, pipelines, load, loads, suspended, restPuts, clientOptions, pages>>

\* The pass of a call of handleCommand has settled.  A pass that threw
\* rejects the call; else the call sends the reply of the errors, or starts
\* the execution of the chat pipeline as it is now, and waits for it.
handleCommandResumes(i, callsNext) ==
  /\ i \in DOMAIN calls
  /\ calls[i].op = "handleCommand"
  /\ AwaitOf(calls[i]) = "pass"
  /\ LET handled == handleCommandRest(calls[i], chatCommandMiddleware, callsNext)
     IN  IF calls[i].optionsObj.kind = "throw"
           THEN /\ last' = handled
                /\ calls' = Without(calls, i)
           ELSE /\ last' = Waiting("handleCommand", calls[i].name)
                /\ calls' = [calls EXCEPT ![i] = Settling(handled)]
  /\ UNCHANGED <<registries, pipelines, load, loads, suspended, restPuts, clientOptions, pages>>

\* The reply or the execution a call of handleCommand waits for has settled:
\* the call returns (`return;`, `return true`) or rejects with the error of
\* the execution.
handleCommandReturns(i) ==
  /\ i \in DOMAIN calls
  /\ calls[i].op = "handleCommand"
  /\ AwaitOf(calls[i]) = "execute"
  /\ last' = calls[i].handled
  /\ calls' = Without(calls, i)
  /\ UNCHANGED <<registries, pipelines, load, loads, suspended, restPuts, clientOptions, pages>>

\* handleAutocomplete(name, focusedName, focusedValue, interaction) up to its
\* await.
handleAutocomplete(name, focusedName, interaction) ==
  /\ IF name \notin DOMAIN commandMap
       THEN /\ last' = handleAutocompleteCall(commandMap, autocompleteMiddleware,
                                              skipAutocompleteValidationAndTransformation,
                                              name, focusedName, interaction, {})
            /\ calls' = calls
       ELSE /\ Len(calls) < MaxCalls
            /\ calls' = Append(calls, handleAutocompletePass(
                                        commandMap, skipAutocompleteValidationAndTransformation,
                                        name, focusedName, interaction))
            /\ last' = Waiting("handleAutocomplete", name)
  /\ UNCHANGED <<registries, pipelines, load, loads, suspended, restPuts, clientOptions, pages>>

\* The pass of a call of handleAutocomplete has settled.  A pass that threw
\* rejects the call; else the call starts the execution of the autocomplete
\* pipeline as it is now around the routed handler, and waits for it.
handleAutocompleteResumes(i, callsNext) ==
  /\ i \in DOMAIN calls
  /\ calls[i].op = "handleAutocomplete"
  /\ AwaitOf(calls[i]) = "pass"
  /\ LET handled == handleAutocompleteRest(calls[i], autocompleteMiddleware, callsNext)
     IN  IF calls[i].optionsObj.kind = "throw"
           THEN /\ last' = handled
                /\ calls' = Without(calls, i)
           ELSE /\ last' = Waiting("handleAutocomplete", calls[i].name)
                /\ calls' = [calls EXCEPT ![i] = Settling(handled)]
  /\ UNCHANGED <<registries, pipelines, load, loads, suspended, restPuts, clientOptions, pages>>

\* The execution a call of handleAutocomplete waits for has settled: the call
\* returns true or rejects with the error of the execution.
handleAutocompleteReturns(i) ==
  /\ i \in DOMAIN calls
  /\ calls[i].op = "handleAutocomplete"
  /\ AwaitOf(calls[i]) = "execute"
  /\ last' = calls[i].handled
  /\ calls' = Without(calls, i)
  /\ UNCHANGED <<registries, pipelines, load, loads, suspended, restPuts, clientOptions, pages>>

\* The execution that handleContextMenu starts goes on by itself: the call
\* returns when any number of its events have happened.
handleContextMenu(name, type, callsNext) ==
  /\ LET handled == handleContextMenuCall(userContextMenuMap, messageContextMenuMap,
                                          contextMenuMiddleware, name, type, callsNext)
     IN  \E after \in 0..Len(handled.events) :
           last' = [handled EXCEPT !.returnedAfter = after]
  /\ UNCHANGED <<registries, pipelines, load, loads, suspended, restPuts, calls, clientOptions, pages>>

(***************************************************************************)
(* A direct call of command.validateAndTransformOptions, on a command      *)
(* that declares the options a, b and c in that order.                     *)
(***************************************************************************)
OptionKinds ==
  [required : BOOLEAN, validator : BOOLEAN, transformer : BOOLEAN]

OptionOf(name, kind) ==
  [name |-> name, required |-> kind.required, validator |-> kind.validator,
   transformer |-> kind.transformer, onAutocomplete |-> FALSE]

InteractionClasses == {"CommandInteraction", "AutocompleteInteraction"}

callValidateAndTransformOptions(options, interaction, skipRequiredCheck) ==
  /\ LET command == SlashCommand([name |-> "abc", description |-> "Abc", options |-> options],
                                 [run |-> "Abc.run", autocomplete |-> Undefined])
         optionsObj == validateAndTransformOptions(command, interaction, skipRequiredCheck)
     IN  last' = [op |-> "validateAndTransformOptions", options |-> options,
                  interaction |-> interaction, skipRequiredCheck |-> skipRequiredCheck,
                  kind |-> optionsObj.kind, result |-> optionsObj.result,
                  errors |-> optionsObj.errors, values |-> optionsObj.values,
                  assigned |-> optionsObj.assigned, vcalls |-> optionsObj.vcalls,
                  tcalls |-> optionsObj.tcalls, thrown |-> optionsObj.thrown]
  /\ UNCHANGED <<registries, pipelines, load, loads, suspended, restPuts, calls, clientOptions, pages>>

(***************************************************************************)
(* A caller that awaits each call of register(Guild)CommandsFrom,          *)
(* handleCommand and handleAutocomplete before it makes the next makes a   *)
(* call when none is in progress.                                          *)
(***************************************************************************)
Awaited == load.pc = "idle" /\ suspended = <<>> /\ calls = <<>>

(***************************************************************************)
(* Loading a command root that holds chat/ and nothing else, by a caller   *)
(* that awaits each call.                                                  *)
(***************************************************************************)
LoadChat ==
  \/ \E register \in BOOLEAN, token \in Tokens :
        Awaited /\ registerCommandsFrom(register, token)
  \/ \E guildId \in GuildIds, register \in BOOLEAN, token \in Tokens :
        Awaited /\ registerGuildCommandsFrom(guildId, register, token)
  \/ enterFolder("chat")
  \/ \E e \in ChatEntries : \E data \in Import("chat", e) : loadTopLevelCommands(e, data)
  \/ \E e \in LevelOneEntries : \E data \in Import("chat", e) : loadSubFolderLevelOne(e, data)
  \/ \E e \in LevelTwoEntries : \E data \in Import("chat", e) : loadSubFolderLevelTwo(e, data)
  \/ returnLevelTwo
  \/ returnLevelOne
  \/ returnFolder
  \/ finishRegister
  \/ \E fulfilled \in BOOLEAN : restPutSettles(fulfilled)

(***************************************************************************)
(* Loading a command root that holds user/ and message/ and no chat/, by   *)
(* a caller that awaits each call.                                         *)
(***************************************************************************)
LoadContext ==
  \/ \E register \in BOOLEAN, token \in Tokens :
        Awaited /\ registerCommandsFrom(register, token)
  \/ \E guildId \in GuildIds, register \in BOOLEAN, token \in Tokens :
        Awaited /\ registerGuildCommandsFrom(guildId, register, token)
  \/ \E folderName \in {"message", "user"} : enterFolder(folderName)
  \/ \E e \in UserEntries : \E data \in Import("user", e) : loadUserCommands(e, data)
  \/ \E e \in MessageEntries : \E data \in Import("message", e) : loadMessageCommands(e, data)
  \/ returnFolder
  \/ finishRegister
  \/ \E fulfilled \in BOOLEAN : restPutSettles(fulfilled)

Next == LoadChat
Spec == Init /\ [][Next]_vars

NextContext == LoadContext
SpecContext == Init /\ [][NextContext]_vars

(***************************************************************************)
(* Loading a command root that holds chat/ (files only), user/ and         *)
(* message/, by a caller that awaits each call.                            *)
(***************************************************************************)
LoadRoot ==
  \/ \E register \in BOOLEAN, token \in Tokens :
        Awaited /\ registerCommandsFrom(register, token)
  \/ \E guildId \in GuildIds, register \in BOOLEAN, token \in Tokens :
        Awaited /\ registerGuildCommandsFrom(guildId, register, token)
  \/ \E folderName \in {"chat", "message", "user"} : enterFolder(folderName)
  \/ \E e \in {f \in ChatEntries : f.isFile} : \E data \in Import("chat", e) :
        loadTopLevelCommands(e, data)
  \/ \E e \in UserEntries : \E data \in Import("user", e) : loadUserCommands(e, data)
  \/ \E e \in MessageEntries : \E data \in Import("message", e) : loadMessageCommands(e, data)
  \/ returnFolder
  \/ finishRegister
  \/ \E fulfilled \in BOOLEAN : restPutSettles(fulfilled)

SpecRoot == Init /\ [][LoadRoot]_vars

(***************************************************************************)
(* Calls that overlap: a caller that does not await makes a call while     *)
(* others are in progress, and the event loop resumes the calls in any     *)
(* order.  Each call is given register = true and a token, so that it     *)
(* ends on a rest.put it waits for, and loads a root whose chat/ holds     *)
(* files and no directory; the client is dispatched to at any moment, also *)
(* while calls are in progress, one call of handleCommand at a time.       *)
(***************************************************************************)
NextOverlap ==
  \/ registerCommandsFrom(TRUE, "token")
  \/ \E guildId \in GuildIds : registerGuildCommandsFrom(guildId, TRUE, "token")
  \/ \E i \in 1..MaxLoads : resume(i)
  \/ enterFolder("chat")
  \/ \E e \in {f \in ChatEntries : f.isFile} : \E data \in Import("chat", e) :
        loadTopLevelCommands(e, data)
  \/ returnFolder
  \/ finishRegister
  \/ \E fulfilled \in BOOLEAN : restPutSettles(fulfilled)
  \/ \E name \in {"ping", "echo"} :
        \E interaction \in Interactions("CommandInteraction",
                                        OptionNamesAt(commandMap, name), {"ok"}) :
          calls = <<>> /\ handleCommand(name, interaction)
  \/ handleCommandResumes(1, {})
  \/ handleCommandReturns(1)

SpecOverlap == Init /\ [][NextOverlap]_vars

(***************************************************************************)
(* A client that loads a small command root once and is dispatched to:     *)
(* chat/ holds ping.cmd.js and echo.tsx, user/ holds info.ts, message/     *)
(* holds pin.ts; the root is loaded with register = false.                 *)
(***************************************************************************)
DispatchChatEntries ==
  {File(<<"p", "i", "n", "g", ".", "c", "m", "d", ".", "j", "s">>),
   File(<<"e", "c", "h", "o", ".", "t", "s", "x">>)}
DispatchUserEntries == {File(<<"i", "n", "f", "o", ".", "t", "s">>)}
DispatchMessageEntries == {File(<<"p", "i", "n", ".", "t", "s">>)}
ChatNames == {"ping", "echo", "nope"}
ContextNames == {"info", "pin", "nope"}
OptionValues == RawValues \cup {Null}
\* The values of a dispatched command interaction.
CommandValues == {"ok", "str", "verr", "boom", Null}
\* No validator runs on an autocomplete interaction: a value is there or not.
AutocompleteValues == {"ok", Null}

\* The elements of a sequence.
Range(stack) == {stack[i] : i \in DOMAIN stack}

LoadDispatch ==
  \/ loads = 0 /\ registerCommandsFrom(FALSE, Undefined)
  \/ \E folderName \in {"chat", "message", "user"} : enterFolder(folderName)
  \/ \E e \in DispatchChatEntries : \E data \in Import("chat", e) :
        loadTopLevelCommands(e, data)
  \/ \E e \in DispatchUserEntries : \E data \in Import("user", e) :
        loadUserCommands(e, data)
  \/ \E e \in DispatchMessageEntries : \E data \in Import("message", e) :
        loadMessageCommands(e, data)
  \/ returnFolder
  \/ finishRegister

\* The client is configured and dispatched to before and after the load, not
\* while it is in progress (the registries a client holds while a load is in
\* progress are registries it also holds after a load of fewer files).
\* callsNext is drawn from the middleware of the pipeline the call executes.
DispatchAutocomplete ==
  \/ \E fn \in Middlewares : Awaited /\ useAutocompleteMiddleware(fn)
  \/ \E name \in ChatNames, focusedName \in {"a", "b"} :
        \E interaction \in Interactions("AutocompleteInteraction",
                                        OptionNamesAt(commandMap, name), AutocompleteValues) :
          Awaited /\ handleAutocomplete(name, focusedName, interaction)
  \/ \E callsNext \in SUBSET Range(autocompleteMiddleware) :
        handleAutocompleteResumes(1, callsNext)
  \/ handleAutocompleteReturns(1)

Dispatch ==
  \/ \E fn \in Middlewares : Awaited /\ useCommandMiddleware(fn)
  \/ \E fn \in Middlewares : Awaited /\ useContextMenuMiddleware(fn)
  \/ \E name \in ChatNames :
        \E interaction \in Interactions("CommandInteraction",
                                        OptionNamesAt(commandMap, name), CommandValues) :
          Awaited /\ handleCommand(name, interaction)
  \/ \E callsNext \in SUBSET Range(chatCommandMiddleware) :
        handleCommandResumes(1, callsNext)
  \/ handleCommandReturns(1)
  \/ DispatchAutocomplete
  \/ \E name \in ContextNames,
         type \in {ApplicationCommandTypeUser, ApplicationCommandTypeMessage},
         callsNext \in SUBSET Range(contextMenuMiddleware) :
        Awaited /\ handleContextMenu(name, type, callsNext)

NextDispatch == LoadDispatch \/ Dispatch
SpecDispatch == Init /\ [][NextDispatch]_vars

(***************************************************************************)
(* The same root, loaded once, on a client whose caller awaits no call of  *)
(* handleCommand or handleAutocomplete: before and after the load,         *)
(* middleware is pushed and calls are made while other calls wait for      *)
(* their pass, their reply or their execution, and the calls that wait go  *)
(* on in any order.                                                        *)
(***************************************************************************)
InterleavedValues == {"ok", "verr"}

NextInterleaved ==
  \/ LoadDispatch
  \/ \E fn \in Middlewares : load.pc = "idle" /\ useCommandMiddleware(fn)
  \/ \E fn \in Middlewares : load.pc = "idle" /\ useAutocompleteMiddleware(fn)
  \/ \E fn \in Middlewares : load.pc = "idle" /\ useContextMenuMiddleware(fn)
  \/ \E name \in {"ping", "echo"}, value \in InterleavedValues :
        \E interaction \in Interactions("CommandInteraction",
                                        OptionNamesAt(commandMap, name), {value}) :
          load.pc = "idle" /\ handleCommand(name, interaction)
  \/ \E i \in 1..MaxCalls, callsNext \in SUBSET Range(chatCommandMiddleware) :
        handleCommandResumes(i, callsNext)
  \/ \E i \in 1..MaxCalls : handleCommandReturns(i)
  \/ \E focusedName \in {"a", "b"} :
        \E interaction \in Interactions("AutocompleteInteraction",
                                        OptionNamesAt(commandMap, "echo"), {"ok"}) :
          load.pc = "idle" /\ handleAutocomplete("echo", focusedName, interaction)
  \/ \E i \in 1..MaxCalls, callsNext \in SUBSET Range(autocompleteMiddleware) :
        handleAutocompleteResumes(i, callsNext)
  \/ \E i \in 1..MaxCalls : handleAutocompleteReturns(i)
  \/ \E name \in {"info", "pin"},
         type \in {ApplicationCommandTypeUser, ApplicationCommandTypeMessage},
         callsNext \in SUBSET Range(contextMenuMiddleware) :
        load.pc = "idle" /\ handleContextMenu(name, type, callsNext)

SpecInterleaved == Init /\ [][NextInterleaved]_vars

(***************************************************************************)
(* A client constructed with or without the option                         *)
(* skipValidationAndTransformationForAutocomplete, that loads the same     *)
(* root and is dispatched autocomplete interactions.                       *)
(***************************************************************************)
InitAutocomplete ==
  /\ NoCommands
  /\ \/ SlashasaurusClient(NoOption)
     \/ \E skip \in BOOLEAN :
          SlashasaurusClient(OneOption("skipValidationAndTransformationForAutocomplete",
                                       "boolean", skip))
     \/ \E none \in Nullish :
          SlashasaurusClient(OneOption("skipValidationAndTransformationForAutocomplete",
                                       none[1], none[2]))
  /\ last = [op |-> "new"]

\* The values of a partial input: any text typed so far, which the validator
\* of the option would accept, reject or crash on if it were given it.
PartialInputValues == {"ok", "str", "boom", Null}

DispatchPartialInput ==
  \/ \E fn \in Middlewares : Awaited /\ useAutocompleteMiddleware(fn)
  \/ \E name \in ChatNames, focusedName \in {"a", "b"} :
        \E interaction \in Interactions("AutocompleteInteraction",
                                        OptionNamesAt(commandMap, name), PartialInputValues) :
          Awaited /\ handleAutocomplete(name, focusedName, interaction)
  \/ \E callsNext \in SUBSET Range(autocompleteMiddleware) :
        handleAutocompleteResumes(1, callsNext)
  \/ handleAutocompleteReturns(1)

NextAutocomplete == LoadDispatch \/ DispatchPartialInput
SpecAutocomplete == InitAutocomplete /\ [][NextAutocomplete]_vars

(***************************************************************************)
(* Pages.  A page type is [pageId, deserializeState]: its static pageId    *)
(* and its static deserializeState (Undefined when it has none).  A page   *)
(* file exports [default, deserializeState], the latter being the named    *)
(* export deserializeState (Undefined when there is none).                 *)
(***************************************************************************)
\* The reserved pageId of the Page base class.
DEFAULT_PAGE_ID == "DEFAULT_PAGE_ID"

PageTypeIds == {"Home", "About", "Unnamed"}

PageType(id) ==
  CASE id = "Home"    -> [pageId |-> "home",
                          deserializeState |-> Export("function", "Home.deserializeState")]
    [] id = "About"   -> [pageId |-> "about",
                          deserializeState |-> Export("undefined", Undefined)]
    [] id = "Unnamed" -> [pageId |-> DEFAULT_PAGE_ID,
                          deserializeState |-> Export("function", "Unnamed.deserializeState")]

isPage(export) == export.typeof = "function" /\ export.value \in PageTypeIds

\* A module whose default export is a page class.
PageModule(default) == [default |-> Export("function", default)]

\* pages/: home.ts, about.tsx, broken.js, notes.md, drafts/
PageEntries ==
  {File(<<"h", "o", "m", "e", ".", "t", "s">>),
   File(<<"a", "b", "o", "u", "t", ".", "t", "s", "x">>),
   File(<<"b", "r", "o", "k", "e", "n", ".", "j", "s">>),
   File(<<"n", "o", "t", "e", "s", ".", "m", "d">>),
   Directory("drafts")}

\* import(filePath) of a file of the pages folder
PageImport(entry) ==
  CASE entry.name = <<"h", "o", "m", "e", ".", "t", "s">> -> {PageModule("Home")}
    [] entry.name = <<"a", "b", "o", "u", "t", ".", "t", "s", "x">> ->
         {[default |-> Export("function", "About"),
           deserializeState |-> Export("function", "about.deserializeState")],
          PageModule("About")}
    [] entry.name = <<"b", "r", "o", "k", "e", "n", ".", "j", "s">> ->
         {NoExports, Module(Null),
          [default |-> Export("object", NotACommand),
           deserializeState |-> Export("function", "broken.deserializeState")],
          PageModule("Unnamed")}
    [] OTHER -> {NoExports}

\* A variant of the choice of the deserializer that looks at the page only.
DeserializeOfStatic(page, data) == page.deserializeState

\* page.deserializeState ?? data.deserializeState
DeserializeOf(page, data) ==
  IF ~(\/ page.deserializeState.typeof = "undefined"
       \/ page.deserializeState.typeof = "object" /\ page.deserializeState.value = Null)
    THEN page.deserializeState
    ELSE Get(data, "deserializeState")

\* The body of the loop of registerPagesFrom: [error, map].
registerPagesFromEntry(map, entry, data) ==
  IF ~entry.isFile THEN [error |-> "Found folder in pages directory", map |-> map]
  ELSE IF ~JSFileRegex(entry.name) THEN [error |-> Null, map |-> map]
  ELSE IF Not(Get(data, "default")) THEN [error |-> NoDefaultExport, map |-> map]
  ELSE IF ~isPage(Get(data, "default"))
    THEN [error |-> "Expected the default export to be a Page", map |-> map]
  ELSE IF PageType(data.default.value).pageId = DEFAULT_PAGE_ID
    THEN [error |-> "The page does not have a static pageId set.", map |-> map]
  ELSE IF Not(DeserializeOf(PageType(data.default.value), data))
    THEN [error |-> "Expected the page to have a static deserializeState function", map |-> map]
  ELSE [error |-> Null,
        map |-> MapSet(map, PageType(data.default.value).pageId,
                       [page |-> data.default.value,
                        deserialize |-> DeserializeOf(PageType(data.default.value), data).value])]

\* What the caller of registerPagesFrom observes and the file the loop is at:
\* the call has read the folder, is loading its files, rejects or resolves.
PagesOutcome(outcome, error, entry, data) ==
  [op |-> "registerPagesFrom", outcome |-> outcome, error |-> error,
   entry |-> entry, data |-> data]

\* registerPagesFrom(path): readdir(path)
registerPagesFrom ==
  /\ loads < MaxLoads
  /\ load' = [IdleLoad EXCEPT !.pc = "pages"]
  /\ suspended' = Suspend(suspended, load)
  /\ loads' = loads + 1
  /\ last' = PagesOutcome("reading", Null, Null, Null)
  /\ UNCHANGED <<registries, pipelines, restPuts, calls, clientOptions, pageMap,
                 activePages, pageLife, storePageState, getPageState>>

\* One iteration of the loop of registerPagesFrom.
registerPage(folderOrFile, data) ==
  /\ load.pc = "pages"
  /\ folderOrFile \in PageEntries \ load.seen
  /\ Cardinality(load.seen) < MaxEntries
  /\ data \in PageImport(folderOrFile)
  /\ LET r == registerPagesFromEntry(pageMap, folderOrFile, data)
     IN  /\ pageMap' = r.map
         /\ IF r.error # Null
              THEN /\ load' = IdleLoad
                   /\ last' = PagesOutcome("rejected", r.error, folderOrFile, data)
              ELSE /\ load' = [load EXCEPT !.seen = @ \cup {folderOrFile}]
                   /\ last' = PagesOutcome("loading", Null, folderOrFile, data)
  /\ UNCHANGED <<registries, pipelines, loads, suspended, restPuts, calls, clientOptions,
                 activePages, pageLife, storePageState, getPageState>>

\* The loop of registerPagesFrom is over.
returnPages ==
  /\ load.pc = "pages"
  /\ load' = IdleLoad
  /\ last' = PagesOutcome("resolved", Null, Null, Null)
  /\ UNCHANGED <<registries, pipelines, loads, suspended, restPuts, calls, clientOptions, pages>>

\* Calling a persistence function: it throws or completes.
Call(fn) ==
  IF fn.throws # Null THEN [result |-> Thrown, thrown |-> fn.throws]
  ELSE [result |-> "resolved", thrown |-> Null]

\* client.storePageState(messageId, pageId, state, messageData)
callStorePageState ==
  /\ last' = [op |-> "storePageState", fn |-> storePageState.name,
              result |-> Call(storePageState).result,
              thrown |-> Call(storePageState).thrown]
  /\ UNCHANGED <<registries, pipelines, load, loads, suspended, restPuts, calls, clientOptions, pages>>

\* client.getPageState(messageId)
callGetPageState ==
  /\ last' = [op |-> "getPageState", fn |-> getPageState.name,
              result |-> Call(getPageState).result,
              thrown |-> Call(getPageState).thrown]
  /\ UNCHANGED <<registries, pipelines, load, loads, suspended, restPuts, calls, clientOptions, pages>>

\* A component interaction (a button or a select menu of a page message)
\* reaches the application.  The handlers of the client for it,
\* handlePageButton and handlePageSelect, and getPageFromMessage are
\* commented out: the client has no method that takes the interaction, so no
\* code of the client runs.  closed tells what the deserializer of the page
\* type would signal for the persisted state of the message.
componentInteraction(messageId, closed) ==
  /\ last' = [op |-> "componentInteraction", key |-> messageId, closed |-> closed,
              cached |-> messageId \in DOMAIN activePages.cache,
              fn |-> getPageState.name, events |-> <<>>]
  /\ UNCHANGED <<registries, pipelines, load, loads, suspended, restPuts, calls, clientOptions, pages>>

\* The persistence functions an application supplies.
UserStore == [name |-> "store", throws |-> Null]
UserGet == [name |-> "get", throws |-> Null]

\* A client constructed with none, one or both of the persistence functions.
InitPages ==
  /\ NoCommands
  /\ \/ SlashasaurusClient(NoOption)
     \/ \E key \in {"storePageState", "getPageState"} :
          \/ SlashasaurusClient(OneOption(key, "function",
                                          IF key = "getPageState" THEN UserGet ELSE UserStore))
          \/ \E none \in Nullish : SlashasaurusClient(OneOption(key, none[1], none[2]))
     \/ SlashasaurusClient([client |-> NoOption.client,
                            storePageState |-> Export("function", UserStore),
                            getPageState |-> Export("function", UserGet)])
  /\ last = [op |-> "new"]

NextPages ==
  \/ registerPagesFrom
  \/ \E i \in 1..MaxLoads : resume(i)
  \/ \E e \in PageEntries : \E data \in PageImport(e) : registerPage(e, data)
  \/ returnPages
  \/ callStorePageState
  \/ callGetPageState
  \/ \E messageId \in {"m1"}, closed \in BOOLEAN : componentInteraction(messageId, closed)

SpecPages == InitPages /\ [][NextPages]_vars

(***************************************************************************)
(* The page cache, client.activePages.  An entry is hot from the set that  *)
(* puts it in the cache to the expiry of its idle timer, which a set and a *)
(* hit by get restart at the TTL.  Time passes in fifths of the TTL and    *)
(* never past the expiry of a timer that has not fired.                    *)
(***************************************************************************)
MapDelete(map, key) == [k \in DOMAIN map \ {key} |-> map[k]]

\* A variant of get that returns the entry without restarting its timer.
activePagesGetFixedWindow(key) ==
  /\ last' = [op |-> "activePages.get", key |-> key, events |-> <<>>,
              result |-> IF key \in DOMAIN activePages.cache
                           THEN activePages.cache[key] ELSE Undefined]
  /\ pageLife' = IF key \in DOMAIN activePages.cache
                   THEN [pageLife EXCEPT ![key].idle = 0] ELSE pageLife
  /\ UNCHANGED <<activePages, registries, pipelines, load, loads, suspended, restPuts, calls, clientOptions,
                 pageMap, storePageState, getPageState>>

\* activePages.set(key, page): inserts or replaces, (re)starts the timer.
activePagesSet(key, page) ==
  /\ activePages' = [activePages EXCEPT !.cache = MapSet(@, key, page),
                                        !.timers = MapSet(@, key, activePages.ttl)]
  /\ pageLife' = MapSet(pageLife, key, [age |-> 0, idle |-> 0, hooks |-> 0])
  /\ last' = [op |-> "activePages.set", key |-> key, events |-> <<>>, result |-> Undefined]
  /\ UNCHANGED <<registries, pipelines, load, loads, suspended, restPuts, calls, clientOptions,
                 pageMap, storePageState, getPageState>>

\* activePages.get(key): the entry or undefined; a hit restarts the timer.
activePagesGet(key) ==
  /\ last' = [op |-> "activePages.get", key |-> key, events |-> <<>>,
              result |-> IF key \in DOMAIN activePages.cache
                           THEN activePages.cache[key] ELSE Undefined]
  /\ IF key \in DOMAIN activePages.cache
       THEN /\ activePages' = [activePages EXCEPT !.timers[key] = activePages.ttl]
            /\ pageLife' = [pageLife EXCEPT ![key].idle = 0]
       ELSE UNCHANGED <<activePages, pageLife>>
  /\ UNCHANGED <<registries, pipelines, load, loads, suspended, restPuts, calls, clientOptions,
                 pageMap, storePageState, getPageState>>

\* activePages.delete(key)
activePagesDelete(key) ==
  /\ key \in DOMAIN pageLife
  /\ activePages' = [activePages EXCEPT !.cache = MapDelete(@, key),
                                        !.timers = MapDelete(@, key)]
  /\ pageLife' = MapDelete(pageLife, key)
  /\ last' = [op |-> "activePages.delete", key |-> key, events |-> <<>>, result |-> Undefined]
  /\ UNCHANGED <<registries, pipelines, load, loads, suspended, restPuts, calls, clientOptions,
                 pageMap, storePageState, getPageState>>

\* The idle timer of an entry fires: the hook is called with the page, then
\* the entry is removed.
timerExpires(key) ==
  /\ key \in DOMAIN activePages.timers
  /\ activePages.timers[key] = 0
  /\ LET called == pageWillLeaveCache(activePages.cache[key])
     IN  /\ last' = [op |-> "expire", key |-> key,
                     events |-> called \o << [at |-> "delete", who |-> key] >>,
                     result |-> activePages.cache[key]]
         /\ pageLife' = [pageLife EXCEPT ![key].hooks = @ + Len(called)]
  /\ activePages' = [activePages EXCEPT !.cache = MapDelete(@, key),
                                        !.timers = MapDelete(@, key)]
  /\ UNCHANGED <<registries, pipelines, load, loads, suspended, restPuts, calls, clientOptions,
                 pageMap, storePageState, getPageState>>

\* Time passes, by fifths of the TTL.
elapse(fifths) ==
  LET d == fifths * (activePages.ttl \div 5)
      cap(t) == IF t > 2 * activePages.ttl THEN 2 * activePages.ttl ELSE t
  IN  /\ DOMAIN activePages.timers # {}
      /\ \A k \in DOMAIN activePages.timers : activePages.timers[k] >= d
      /\ activePages' = [activePages EXCEPT
                           !.timers = [k \in DOMAIN @ |-> @[k] - d]]
      /\ pageLife' = [k \in DOMAIN pageLife |->
                        IF k \in DOMAIN activePages.cache
                          THEN [pageLife[k] EXCEPT !.age = cap(@ + d), !.idle = @ + d]
                          ELSE pageLife[k]]
      /\ last' = [op |-> "elapse", key |-> Undefined, events |-> <<>>, result |-> Undefined]
      /\ UNCHANGED <<registries, pipelines, load, loads, suspended, restPuts, calls, clientOptions,
                     pageMap, storePageState, getPageState>>

\* A client constructed with or without pageTtl, whose cache is used.
InitCache ==
  /\ NoCommands
  /\ \/ SlashasaurusClient(NoOption)
     \/ SlashasaurusClient(OneOption("pageTtl", "number", 5))
     \/ \E none \in Nullish : SlashasaurusClient(OneOption("pageTtl", none[1], none[2]))
  /\ last = [op |-> "new"]

NextCache ==
  \/ \E key \in {"m1", "m2"}, page \in {"hooked", "plain"} : activePagesSet(key, page)
  \/ \E key \in {"m1", "m2"} : activePagesGet(key)
  \/ \E key \in {"m1", "m2"} : activePagesDelete(key)
  \/ \E key \in {"m1", "m2"} : timerExpires(key)
  \/ \E fifths \in {1, 4} : elapse(fifths)

SpecCache == InitCache /\ [][NextCache]_vars

(***************************************************************************)
(* One call of validateAndTransformOptions on a command of every shape,    *)
(* with an interaction of either class, required checks skipped or not:    *)
(* the initial state holds the command's options and the arguments.        *)
(***************************************************************************)
InitValidate ==
  /\ NoCommands
  /\ SlashasaurusClient(NoOption)
  /\ \E ka \in OptionKinds, kb \in OptionKinds, kc \in OptionKinds :
       \E class \in InteractionClasses, skipRequiredCheck \in BOOLEAN :
         \E interaction \in Interactions(class, {"a", "b", "c"}, OptionValues) :
           last = [op |-> "new",
                   options |-> <<OptionOf("a", ka), OptionOf("b", kb), OptionOf("c", kc)>>,
                   interaction |-> interaction, skipRequiredCheck |-> skipRequiredCheck]

NextValidate ==
  /\ last.op = "new"
  /\ callValidateAndTransformOptions(last.options, last.interaction, last.skipRequiredCheck)
SpecValidate == InitValidate /\ [][NextValidate]_vars

(***************************************************************************)
(* The properties checked.                                                 *)
(***************************************************************************)

\* C1: a call of registerCommandsFrom / registerGuildCommandsFrom in which two
\* chat command files resolve to the same dispatch key is rejected with
\* 'Duplicate command name <key>' and makes no call of rest.put; a load in
\* progress never holds two files of one key.
C1_DuplicateChatKeyAborts ==
  /\ \A k \in DOMAIN load.chatKeys : load.chatKeys[k] <= 1
  /\ (last.op = "register" /\ \E k \in DOMAIN last.chatKeys : last.chatKeys[k] >= 2)
       => /\ last.outcome = "rejected"
          /\ \E k \in DOMAIN last.chatKeys :
               last.chatKeys[k] = 2 /\ last.error = "Duplicate command name " \o k
          /\ ~last.put

\* C1 happens: a load was rejected on the second file of the key grp.sub.ping.
C1_Witness ==
  /\ last.op = "register"
  /\ last.outcome = "rejected"
  /\ "grp.sub.ping" \in DOMAIN last.chatKeys
  /\ last.chatKeys["grp.sub.ping"] = 2

\* C2: a call of registerCommandsFrom / registerGuildCommandsFrom that reads
\* two files under user/, or two files under message/, whose commands have
\* the same name is rejected.
C2_DuplicateContextNameAborts ==
  (last.op = "register" /\
     \/ \E k \in DOMAIN last.userKeys : last.userKeys[k] >= 2
     \/ \E k \in DOMAIN last.messageKeys : last.messageKeys[k] >= 2)
    => last.outcome = "rejected"

\* C3: handleCommand on a loaded command whose handlers object has no run,
\* with options that pass validation and middleware that all call next, replies
\* 'This command is not implemented yet' (ephemeral), does not throw and
\* returns true.
C3_NoRunRepliesNotImplemented ==
  (/\ last.op = "handleCommand"
   /\ last.name \in DOMAIN commandMap
   /\ ChatHandlers(commandMap[last.name]).run = Undefined
   /\ last.pass.kind = "values"
   /\ last.callsNext = Range(chatCommandMiddleware))
    => /\ last.result = "true"
       /\ last.thrown = Null
       /\ last.replies = <<NotImplementedReply>>

\* C4: handleContextMenu called with ApplicationCommandType.User finds and runs
\* the commands loaded from user/, called with ApplicationCommandType.Message
\* those loaded from message/, and returns false for a name that only the
\* other map holds.
C4_ContextMenuLooksUpMatchingMap ==
  last.op = "handleContextMenu" =>
    LET matching == IF last.args = ApplicationCommandTypeUser
                      THEN userContextMenuMap ELSE messageContextMenuMap
    IN  IF last.name \in DOMAIN matching
          THEN /\ last.result = "true"
               /\ last.callsNext = Range(contextMenuMiddleware) =>
                    \E i \in DOMAIN last.events :
                      last.events[i] = [at |-> "handler",
                                        who |-> ContextRun(matching[last.name])]
          ELSE last.result = "false"

\* C5: handleCommand, handleAutocomplete and handleContextMenu called with a
\* name that is no key of the relevant registry return false without throwing,
\* run no validation pass, send no reply and invoke no middleware and no handler.
C5_UnknownNameReturnsFalse ==
  LET relevant == IF last.op \in {"handleCommand", "handleAutocomplete"} THEN commandMap
                  ELSE IF last.args = ApplicationCommandTypeUser THEN userContextMenuMap
                  ELSE messageContextMenuMap
  IN  (/\ last.op \in {"handleCommand", "handleAutocomplete", "handleContextMenu"}
       /\ last.name \notin DOMAIN relevant)
        => /\ last.result = "false"
           /\ last.thrown = Null
           /\ last.pass.kind = "none"
           /\ last.replies = <<>>
           /\ last.events = <<>>

\* C6: a call of handleCommand that does not throw yields true or false: false
\* exactly when no command is registered under the name.
C6_HandleCommandYieldsBoolean ==
  (last.op = "handleCommand" /\ last.thrown = Null)
    => /\ last.result \in {"true", "false"}
       /\ last.result = "false" <=> last.name \notin DOMAIN commandMap

\* C7: when the validation pass of handleCommand collects errors, exactly one
\* reply is sent, ephemeral, whose content is the messages of the rejected
\* options joined by newline in declaration order, and no middleware and no
\* handler is invoked.
C7_ValidationErrorsReplyOnce ==
  (last.op = "handleCommand" /\ last.pass.kind = "errors")
    => LET rejected(n) == last.args.options[n] \in {"str", "verr"}
           content == IF rejected("a") /\ rejected("b") THEN "bad a\nbad b"
                      ELSE IF rejected("a") THEN "bad a"
                      ELSE "bad b"
       IN  /\ last.replies = << [content |-> content, ephemeral |-> TRUE] >>
           /\ last.events = <<>>

\* C7 happens: two options were rejected on a client with chat middleware.
C7_Witness ==
  /\ last.op = "handleCommand"
  /\ last.pass.kind = "errors"
  /\ Len(last.pass.errors) = 2
  /\ chatCommandMiddleware # <<>>
  /\ Len(last.replies) = 1

\* C8: in a pass on a command interaction in which no validator crashes and
\* no required option is missing, with k > 0 supplied options whose validator
\* rejects, the validator of every supplied option that has one is invoked,
\* and the result is the list of the k messages in declaration order.
C8_RejectionsAccumulate ==
  last.op = "validateAndTransformOptions" =>
    LET options == last.options
        value(i) == last.interaction.options[options[i].name]
        Rejects(i) == options[i].validator /\ value(i) \in {"str", "verr"}
        Validated(i) == options[i].validator /\ value(i) # Null
        Crashes(i) == \/ options[i].validator /\ value(i) = "boom"
                      \/ value(i) = Null /\ options[i].required /\ ~last.skipRequiredCheck
        rejecting == SelectSeq(<<1, 2, 3>>, Rejects)
        validated == SelectSeq(<<1, 2, 3>>, Validated)
    IN  (/\ last.interaction.class = "CommandInteraction"
         /\ \A i \in 1..3 : ~Crashes(i)
         /\ Len(rejecting) > 0)
          => /\ last.kind = "errors"
             /\ last.result = [j \in DOMAIN rejecting |->
                                 RejectMessage(options[rejecting[j]].name)]
             /\ last.vcalls = [j \in DOMAIN validated |-> options[validated[j]].name]

\* C8 happens: of three options with a validator, the first and the third
\* were rejected and the second passed.
C8_Witness ==
  /\ last.op = "validateAndTransformOptions"
  /\ last.interaction.class = "CommandInteraction"
  /\ \A i \in 1..3 : last.options[i].validator
  /\ last.interaction.options = [n \in {"a", "b", "c"} |->
                                   IF n = "b" THEN "ok" ELSE "str"]
  /\ last.result = <<"bad a", "bad c">>

\* C9: an option with no supplied value that is not required, or whose required
\* check is skipped, is assigned null, neither its validator nor its
\* transformer is invoked, and no error is added for it.
C9_AbsentValueAssignedNull ==
  last.op = "validateAndTransformOptions" =>
    LET options == last.options
        value(i) == last.interaction.options[options[i].name]
        Crashes(i) == \/ /\ options[i].validator /\ value(i) = "boom"
                         /\ last.interaction.class = "CommandInteraction"
                      \/ value(i) = Null /\ options[i].required /\ ~last.skipRequiredCheck
    IN  \A i \in 1..3 :
          (/\ value(i) = Null
           /\ last.skipRequiredCheck \/ ~options[i].required
           /\ \A j \in 1..(i - 1) : ~Crashes(j))
            => /\ options[i].name \in last.assigned
               /\ last.values[options[i].name] = Null
               /\ \A j \in DOMAIN last.vcalls : last.vcalls[j] # options[i].name
               /\ \A j \in DOMAIN last.tcalls : last.tcalls[j] # options[i].name
               /\ \A j \in DOMAIN last.errors :
                    last.errors[j] # RejectMessage(options[i].name)

\* C9 happens: an autocomplete pass with required checks skipped on a required
\* option with a validator and a transformer and no supplied value.
C9_Witness ==
  /\ last.op = "validateAndTransformOptions"
  /\ last.interaction.class = "AutocompleteInteraction"
  /\ last.skipRequiredCheck
  /\ last.options[1].required /\ last.options[1].validator /\ last.options[1].transformer
  /\ last.interaction.options["a"] = Null
  /\ last.kind = "values"
  /\ last.values["a"] = Null

\* C10, with the pipeline as section 8 of the specification describes it
\* (the middleware registered first outermost): in a dispatch that completes
\* without an error, the middleware that ran are the first ones registered
\* on the pipeline of the dispatcher, their pre-logic in the order of
\* registration; when each of them calls next, the terminal handler follows,
\* once, and then the post-logic in the reverse order.  A middleware
\* registered after the execution started is no part of it.
C10_OnionOrder ==
  (/\ last.op \in {"handleCommand", "handleAutocomplete", "handleContextMenu"}
   /\ last.result = "true"
   /\ last.failed = Null)
    => LET registered == CASE last.op = "handleCommand" -> used.chat
                           [] last.op = "handleAutocomplete" -> used.autocomplete
                           [] OTHER -> used.context
           IsPre(event) == event.at = "pre"
           pre == SelectSeq(last.events, IsPre)
           n == Len(pre)
       IN  /\ n <= Len(registered)
           /\ \A i \in 1..n : last.events[i] = [at |-> "pre", who |-> registered[i]]
           /\ {pre[i].who : i \in 1..n} \subseteq last.callsNext
                => /\ Len(last.events) = 2 * n + 1
                   /\ last.events[n + 1].at = "handler"
                   /\ \A i \in 1..n :
                        last.events[2 * n + 2 - i] = [at |-> "post", who |-> registered[i]]

\* C10 happens: A was registered with useCommandMiddleware, a call of
\* handleCommand on echo started its execution, B was registered, and the
\* call returned, A alone having run around the handler, while a call made
\* before it, on ping, still waits.
C10_Witness ==
  /\ used.chat = <<"A", "B">>
  /\ Len(calls) = 1
  /\ calls[1].name = "ping"
  /\ last.op = "handleCommand"
  /\ last.events = << [at |-> "pre", who |-> "A"],
                      [at |-> "handler", who |-> "Echo.run"],
                      [at |-> "post", who |-> "A"] >>

\* C10 happens on the context menu pipeline: A then B were registered with
\* useContextMenuMiddleware and ran around the handler of the user command.
C10_WitnessContextMenu ==
  /\ used.context = <<"A", "B">>
  /\ last.op = "handleContextMenu"
  /\ Len(last.events) = 5
  /\ last.events[1] = [at |-> "pre", who |-> "A"]
  /\ last.events[2] = [at |-> "pre", who |-> "B"]
  /\ last.events[3].at = "handler"

\* C11: handleAutocomplete on a registered command resolves to true and runs
\* no handler but the routed one: the focused option's own autocomplete
\* function when the option declares one, the command's autocomplete handler
\* (the prototype's when the handlers object has none) otherwise; the routed
\* handler runs exactly once when every middleware of the autocomplete
\* pipeline calls next, and the other handler never runs.
C11_AutocompleteRoutesByFocusedOption ==
  (last.op = "handleAutocomplete" /\ last.name \in DOMAIN commandMap)
    => LET id == commandMap[last.name]
           options == ChatCommandInfo(id).options
           focusedName == last.args.focusedName
           declared == \E i \in DOMAIN options :
                         options[i].name = focusedName /\ options[i].onAutocomplete
           ofCommand == IF ChatHandlers(id).autocomplete # Undefined
                          THEN ChatHandlers(id).autocomplete ELSE DefaultAutocomplete
           routed == IF declared THEN OnAutocomplete(focusedName) ELSE ofCommand
           ran == SelectSeq(last.events, LAMBDA e : e.at = "handler")
       IN  /\ last.result = "true"
           /\ Len(ran) <= 1
           /\ \A i \in DOMAIN ran : ran[i].who = routed
           /\ Range(autocompleteMiddleware) \subseteq last.callsNext => Len(ran) = 1

\* C11 happens: with a middleware on the autocomplete pipeline, echo was
\* dispatched with its option b focused, which declares onAutocomplete, and
\* the option's function ran inside the middleware.
C11_Witness ==
  /\ last.op = "handleAutocomplete"
  /\ last.name = "echo"
  /\ last.args.focusedName = "b"
  /\ last.result = "true"
  /\ last.events = << [at |-> "pre", who |-> "A"],
                      [at |-> "handler", who |-> "b.onAutocomplete"],
                      [at |-> "post", who |-> "A"] >>

\* C12: a client constructed with skipValidationAndTransformationForAutocomplete
\* = true invokes no option validator and no option transformer while it
\* handles an autocomplete event; a client constructed without it applies
\* the transformers of the options that are present.
C12_SkipOptionBypassesTransformation ==
  (last.op = "handleAutocomplete" /\ last.name \in DOMAIN commandMap)
    => LET options == ChatCommandInfo(commandMap[last.name]).options
           present == SelectSeq(options, LAMBDA o :
                        o.transformer /\ last.args.interaction.options[o.name] # Null)
       IN  IF skipAutocompleteValidationAndTransformation
             THEN last.pass.vcalls = <<>> /\ last.pass.tcalls = <<>>
             ELSE last.pass.tcalls = [i \in DOMAIN present |-> present[i].name]

\* C13: the page cache has a sliding TTL: an entry set or hit by get less
\* than a TTL ago is in the cache and pageWillLeaveCache has not been called
\* for it, however long ago it was first set.
C13_SlidingTtl ==
  \A k \in DOMAIN pageLife :
    pageLife[k].idle < activePages.ttl
      => /\ k \in DOMAIN activePages.cache
         /\ pageLife[k].hooks = 0

\* C13 happens: with the default TTL, m1 was set, 80% of the TTL passed, get
\* hit it, another 80% of the TTL passed, and m1 is in the cache.
C13_Witness ==
  /\ activePages.ttl = DefaultPageTtl
  /\ "m1" \in DOMAIN pageLife
  /\ "m1" \in DOMAIN activePages.cache
  /\ pageLife["m1"].age = 8 * (DefaultPageTtl \div 5)
  /\ pageLife["m1"].idle = 4 * (DefaultPageTtl \div 5)
  /\ pageLife["m1"].hooks = 0
  /\ last.op = "elapse"

\* C14: when the idle timer of an entry expires, pageWillLeaveCache is called
\* once if the page defines it, then the entry is removed, and get reports
\* the key absent; every cached entry has a running timer; the hook is called
\* at most once for an entry, and only for one that went a full TTL untouched.
C14_EvictionCallsHookOnce ==
  /\ DOMAIN activePages.cache = DOMAIN activePages.timers
  /\ \A k \in DOMAIN pageLife :
       /\ pageLife[k].hooks <= 1
       /\ pageLife[k].hooks = 1 => k \notin DOMAIN activePages.cache
       /\ k \notin DOMAIN activePages.cache => pageLife[k].idle = activePages.ttl
  /\ last.op = "expire"
       => /\ last.events =
               (IF last.result = "hooked"
                  THEN << [at |-> "pageWillLeaveCache", who |-> "hooked"] >> ELSE <<>>)
               \o << [at |-> "delete", who |-> last.key] >>
          /\ last.key \notin DOMAIN activePages.cache
          /\ pageLife[last.key].hooks = IF last.result = "hooked" THEN 1 ELSE 0
  /\ (last.op = "activePages.get" /\ last.key \notin DOMAIN activePages.cache)
       => last.result = Undefined

\* C14 happens: the timer of a page that defines pageWillLeaveCache expired a
\* full TTL after the page was set, and the hook was called for it.
C14_Witness ==
  /\ last.op = "expire"
  /\ last.result = "hooked"
  /\ pageLife[last.key].age = activePages.ttl
  /\ pageLife[last.key].hooks = 1
  /\ last.key \notin DOMAIN activePages.cache

\* C17: a call of client.storePageState on a client constructed without
\* storePageState, and a call of client.getPageState on a client constructed
\* without getPageState, fails with the error 'You must implement
\* storePageState and getPageState in order to use pages', whether or not the
\* other function was supplied.
C17_MissingPersistenceFailsLoudly ==
  (last.op \in {"storePageState", "getPageState"} /\ last.fn \notin {"store", "get"})
    => /\ last.result = Thrown
       /\ last.thrown =
            "You must implement storePageState and getPageState in order to use pages"

\* C17 happens: storePageState was supplied, getPageState was not, and a call
\* of client.getPageState failed.
C17_Witness ==
  /\ storePageState = UserStore
  /\ last.op = "getPageState"
  /\ last.fn = "defaultPageGet"
  /\ last.result = Thrown

\* C19: an iteration of registerPagesFrom adds a page type to pageMap, under
\* its pageId and with its static deserializeState or else the named export
\* deserializeState of the file, exactly when the file is a source file
\* whose default export is a page with a pageId other than DEFAULT_PAGE_ID
\* and with a deserializer; a folder, and a source file that fails one of
\* these, rejects the call and leaves pageMap as it was.
C19_RegistersValidPagesOnly ==
  [][(/\ load.pc = "pages"
      /\ suspended' = suspended
      /\ last'.op = "registerPagesFrom"
      /\ last'.outcome \in {"loading", "rejected"})
       => LET entry == last'.entry
              data == last'.data
              source == /\ entry.isFile
                        /\ entry.name \in {<<"h", "o", "m", "e", ".", "t", "s">>,
                                           <<"a", "b", "o", "u", "t", ".", "t", "s", "x">>,
                                           <<"b", "r", "o", "k", "e", "n", ".", "j", "s">>}
              default == IF "default" \in DOMAIN data THEN data.default.value ELSE Undefined
              named == IF "deserializeState" \in DOMAIN data
                         THEN data.deserializeState.value ELSE Undefined
              aPage == default \in PageTypeIds
              type == PageType(IF aPage THEN default ELSE "Home")
              deserialize == IF type.deserializeState.value # Undefined
                               THEN type.deserializeState.value ELSE named
              valid == /\ source
                       /\ aPage
                       /\ type.pageId # DEFAULT_PAGE_ID
                       /\ deserialize # Undefined
          IN  /\ valid => /\ last'.outcome = "loading"
                          /\ pageMap' = MapSet(pageMap, type.pageId,
                                                [page |-> default,
                                                 deserialize |-> deserialize])
              /\ ~valid => pageMap' = pageMap
              /\ (~valid /\ (source \/ ~entry.isFile)) => last'.outcome = "rejected"
              /\ last'.outcome = "rejected" => load'.pc = "idle"]_vars

\* C19 happens: about.tsx, whose page has no static deserializeState, was
\* registered with the named export of the file as its deserializer.
C19_Witness ==
  /\ last.op = "registerPagesFrom"
  /\ last.outcome = "loading"
  /\ last.entry.name = <<"a", "b", "o", "u", "t", ".", "t", "s", "x">>
  /\ "about" \in DOMAIN pageMap
  /\ pageMap["about"] = [page |-> "About", deserialize |-> "about.deserializeState"]

\* C15: after a component interaction on a message that is not in the cache,
\* whose persisted state names a registered page type and deserializes to
\* props and state, a live page is in the cache under the message id.
C15_RehydratesOnMiss ==
  (/\ last.op = "componentInteraction"
   /\ ~last.cached
   /\ ~last.closed
   /\ last.fn = "get"
   /\ "home" \in DOMAIN pageMap)
    => last.key \in DOMAIN activePages.cache

\* C16: after a component interaction on a message that is not in the cache
\* and whose deserializer signals that the page is closed, the message has
\* been deleted or edited to the closed notice, and no cache entry exists for
\* it.
C16_ClosedPageIsRemoved ==
  (/\ last.op = "componentInteraction"
   /\ ~last.cached
   /\ last.closed
   /\ last.fn = "get"
   /\ "home" \in DOMAIN pageMap)
    => /\ \E i \in DOMAIN last.events :
            last.events[i].at \in {"message.delete", "message.edit"}
       /\ last.key \notin DOMAIN activePages.cache

\* C18: a loader that meets a source file with no default export (or a falsy
\* one), a default export that fails the capability check of its folder, or
\* a directory in user/ or message/ rejects registerCommandsFrom or registerGuildCommandsFrom
\* at that file, whatever register and token are: an iteration that does not
\* reject was on a file that is none of these, and a call rejected in a
\* loader has made no rest.put and has been rejected for one of these or for
\* a duplicate name; any other rejected call is one whose rest.put failed.
C18_StructuralErrorAbortsBeforePut ==
  [][LET rejected == /\ last'.op = "register"
                     /\ last'.outcome = "rejected"
                     /\ load.pc # "put"
         iterated == /\ load.pc \in {"chat", "user", "message"}
                     /\ load'.pc = load.pc
                     /\ load'.seen # load.seen
         capable(export) == CASE load.pc = "chat" -> export \in ChatCommandIds
                              [] load.pc = "user" -> export \in UserCommandIds
                              [] OTHER -> export \in MessageCommandIds
         structural(entry, data) ==
           LET source == /\ entry.isFile
                         /\ entry.name # <<"t", "y", "p", "e", "s", ".", "d", ".", "t", "s">>
               default == IF "default" \in DOMAIN data THEN data.default.value ELSE Undefined
           IN  \/ ~entry.isFile /\ load.pc \in {"user", "message"}
               \/ source /\ default \in {Undefined, Null, "0"}
               \/ source /\ default \notin {Undefined, Null, "0"} /\ ~capable(default)
     IN  /\ (last'.op = "register" /\ last'.outcome = "rejected" /\ load.pc = "put")
              => last'.put /\ last'.error = RestPutError
         /\ rejected
              => /\ restPuts' = restPuts
                 /\ last'.put = FALSE
                 /\ load'.pc = "idle"
                 /\ \/ structural(last'.entry, last'.data)
                    \/ /\ load.pc = "chat"
                       /\ last'.error = "Duplicate command name "
                                           \o ChatCommandInfo(last'.data.default.value).name
         /\ iterated
              => LET entry == CHOOSE e \in load'.seen : e \notin load.seen
                 IN  \A data \in Import(load.pc, entry) : ~structural(entry, data)]_vars

\* C18 happens: a call given register = true and a token met a directory in
\* user/ and was rejected without a rest.put.
C18_Witness ==
  /\ last.op = "register"
  /\ last.outcome = "rejected"
  /\ last.register
  /\ last.token = "token"
  /\ last.folder = "user"
  /\ last.error = FolderInContextMenu
  /\ restPuts = 0

\* C20: in a validation pass, the transformer of an option is not invoked
\* when the validator of that option rejected the value, by returning a
\* string or by throwing a ValidationError.
C20_RejectedOptionNotTransformed ==
  last.op = "validateAndTransformOptions"
    => \A i \in DOMAIN last.options :
         LET option == last.options[i]
             rejected == /\ option.validator
                         /\ last.interaction.class = "CommandInteraction"
                         /\ last.interaction.options[option.name] \in {"str", "verr"}
         IN  rejected => option.name \notin Range(last.tcalls)

\* C21: when the validator of an option throws an error that is no
\* ValidationError, the pass of handleCommand ends there with that error: no
\* validator and no transformer of a later option is invoked, handleCommand
\* rejects with the error, sends no reply (the messages collected before are
\* dropped) and runs no middleware and no handler.
C21_OtherErrorAbortsPass ==
  (last.op = "handleCommand" /\ last.name \in DOMAIN commandMap)
    => LET options == ChatCommandInfo(commandMap[last.name]).options
           crashes(i) == options[i].validator /\ last.args.options[options[i].name] = "boom"
           later(i) == {options[j].name : j \in {k \in DOMAIN options : k > i}}
       IN  \A i \in DOMAIN options :
             (crashes(i) /\ \A j \in 1..(i - 1) : ~crashes(j))
               => /\ last.result = Thrown
                  /\ last.thrown = Validator(options[i].name, "boom").value
                  /\ last.pass.kind = "throw"
                  /\ Range(last.pass.vcalls) \cap later(i) = {}
                  /\ Range(last.pass.tcalls) \cap later(i) = {}
                  /\ last.pass.vcalls[Len(last.pass.vcalls)] = options[i].name
                  /\ last.replies = <<>>
                  /\ last.events = <<>>

\* C21 happens: the validator of a rejected a string, the validator of b
\* crashed, on a client with chat middleware.
C21_Witness ==
  /\ last.op = "handleCommand"
  /\ last.name = "echo"
  /\ last.args.options = [n \in {"a", "b"} |-> IF n = "a" THEN "str" ELSE "boom"]
  /\ last.pass.errors = <<"bad a">>
  /\ last.pass.vcalls = <<"a", "b">>
  /\ last.result = Thrown
  /\ chatCommandMiddleware # <<>>

\* C22: the pass of handleAutocomplete on a registered command invokes no
\* validator, throws for no missing required option and collects no error:
\* whatever options the partial input supplies, every option is assigned, the
\* pass yields a values object, and handleAutocomplete executes the
\* autocomplete pipeline and resolves to true, the handler running once when
\* every middleware calls next.
C22_AutocompletePassYieldsValues ==
  (last.op = "handleAutocomplete" /\ last.name \in DOMAIN commandMap)
    => LET options == ChatCommandInfo(commandMap[last.name]).options
           ran == SelectSeq(last.events, LAMBDA e : e.at = "handler")
       IN  /\ last.pass.kind = "values"
           /\ last.pass.vcalls = <<>>
           /\ last.pass.errors = <<>>
           /\ last.pass.assigned = {options[i].name : i \in DOMAIN options}
           /\ last.result = "true"
           /\ last.thrown = Null
           /\ last.callsNext = Range(autocompleteMiddleware) => Len(ran) = 1

\* C22 happens: the required option a is missing and b holds a text its
\* validator would crash on; the handler ran inside a middleware.
C22_Witness ==
  /\ last.op = "handleAutocomplete"
  /\ last.name = "echo"
  /\ last.args.interaction.options = [n \in {"a", "b"} |-> IF n = "a" THEN Null ELSE "boom"]
  /\ last.pass.kind = "values"
  /\ autocompleteMiddleware # <<>>
  /\ \E i \in DOMAIN last.events : last.events[i].at = "handler"

\* C23: in the pass of handleCommand a required option that the event does
\* not carry makes the fetch of its value throw: the pass does not complete,
\* the option is not assigned null and neither middleware nor handler runs.
C23_MissingRequiredOptionThrows ==
  (last.op = "handleCommand" /\ last.name \in DOMAIN commandMap)
    => LET options == ChatCommandInfo(commandMap[last.name]).options
           value(i) == last.args.options[options[i].name]
           crashes(i) == options[i].validator /\ value(i) = "boom"
       IN  \A i \in DOMAIN options :
             (/\ options[i].required
              /\ value(i) = Null
              /\ \A j \in 1..(i - 1) : ~crashes(j))
               => /\ last.pass.kind = "throw"
                  /\ last.result = Thrown
                  /\ options[i].name \notin last.pass.assigned
                  /\ last.events = <<>>

\* C24: every step of a load of a chat/ tree adds to the chat dispatch map
\* exactly the key of the eligible command file it read, a key the map did
\* not hold: the declared name for a file of chat/, parent.name for a file of
\* chat/parent/, parent.group.name for a file of chat/parent/group/; a step
\* that reads anything else (a directory, also one below the third level, a
\* file of chat/parent/ or chat/parent/group/ whose name matches the meta
\* pattern, whatever it exports, a declaration file) or that ends the load
\* adds nothing, and
\* handleCommand yields false exactly for the names that are no such key.
C24_OneKeyPerCommandFile ==
  [][LET pc == load.pc
         read == CASE pc = "chat" -> load'.seen \ load.seen
                   [] pc = "one"  -> load'.seen1 \ load.seen1
                   [] pc = "two"  -> load'.seen2 \ load.seen2
                   [] OTHER       -> {}
         prefix == CASE pc = "one" -> load.name1 \o "."
                     [] pc = "two" -> load.name1 \o "." \o load.name2 \o "."
                     [] OTHER      -> ""
         echo == <<"e", "c", "h", "o", ".", "t", "s", "x">>
         declared(e) == IF e.name = echo THEN "echo" ELSE "ping"
         eligible == {e \in read :
                        /\ e.isFile
                        /\ e.name \in {<<"p", "i", "n", "g", ".", "t", "s">>,
                                        <<"p", "i", "n", "g", ".", "c", "m", "d", ".", "j", "s">>,
                                        echo}}
         expected == {prefix \o declared(e) : e \in eligible}
         names == DOMAIN commandMap' \cup
                    {"ping", "echo", "grp", "sub", "grp.sub", "sub.ping", "grp.echo",
                     "grp.sub.deep", "grp.sub.deep.ping", "deep.ping"}
         interaction(name) == [class |-> "CommandInteraction",
                               options |-> [n \in OptionNamesAt(commandMap', name) |-> "ok"]]
     IN  /\ DOMAIN commandMap' = DOMAIN commandMap \cup expected
         /\ expected \cap DOMAIN commandMap = {}
         /\ \A k \in DOMAIN commandMap : commandMap'[k] = commandMap[k]
         /\ \A name \in names :
              handleCommandCall(commandMap', <<>>, name, interaction(name), {}).result = "false"
                <=> name \notin DOMAIN commandMap'
    ]_vars

\* C24 happens: a load of chat/echo.tsx, chat/grp/ping.ts and
\* chat/grp/sub/ping.ts has resolved.
C24_Witness ==
  /\ last.op = "register"
  /\ last.outcome = "resolved"
  /\ loads = 1
  /\ DOMAIN commandMap = {"echo", "grp.ping", "grp.sub.ping"}

\* C25: the descriptor built when the loader leaves a directory of chat/ (a
\* grouped command or a subcommand group) carries a string description: the
\* placeholder 'Default description' when no meta file was read in the
\* directory, and the description the meta file exports when one was read,
\* wherever the meta file came in the traversal.  Step by step: a meta file
\* that exports a description makes it the description of the directory's
\* metaData, and the descriptor built on return carries the description of
\* metaData, which is the placeholder when no meta file was read.
C25_DirectoryDescriptorHasDescription ==
  [][LET pc == load.pc
         returns == \/ pc = "one" /\ load'.pc = "chat"
                    \/ pc = "two" /\ load'.pc = "one"
         seen == IF pc = "one" THEN load.seen1 ELSE load.seen2
         metaData == IF pc = "one" THEN load.meta1 ELSE load.meta2
         metaDataNext == IF pc = "one" THEN load'.meta1 ELSE load'.meta2
         metaFiles == {e \in seen : e.isFile /\ MetaFileRegex(e.name)}
         reads(e, data) == /\ \/ pc = "one" /\ loadSubFolderLevelOne(e, data)
                              \/ pc = "two" /\ loadSubFolderLevelTwo(e, data)
                           /\ load'.pc = pc
     IN  /\ returns
              => /\ Len(last'.pushed) = 1
                 /\ last'.pushed[1].kind = IF pc = "one" THEN "command" ELSE "group"
                 /\ Get(metaData, "description").typeof = "string"
                 /\ last'.pushed[1].description = Get(metaData, "description").value
                 /\ metaFiles = {} => last'.pushed[1].description = "Default description"
         /\ \A e \in {f \in LevelOneEntries \cup LevelTwoEntries :
                         f.isFile /\ MetaFileRegex(f.name)} :
              \A data \in Import("chat", e) :
                (reads(e, data) /\ Get(data, "description").typeof = "string")
                  => Get(metaDataNext, "description") = Get(data, "description")
    ]_vars

\* C26: a component interaction that arrives while the message id is absent
\* from the cache misses, fetches the persisted state and constructs a page
\* instance of its own, whether or not another interaction on the same
\* message has done so before (nothing serializes the two).
C26_RacingInteractionsBothRehydrate ==
  (/\ last.op = "componentInteraction"
   /\ ~last.cached
   /\ ~last.closed
   /\ last.fn = "get"
   /\ "home" \in DOMAIN pageMap)
    => /\ \E i \in DOMAIN last.events : last.events[i].at = "getPageState"
       /\ \E i \in DOMAIN last.events : last.events[i].at = "new Page"

\* C27: a validator that returns false rejects nothing: in a pass on a
\* command interaction the errors are the messages of the options whose
\* validator returned a string or threw a ValidationError and of no other,
\* and an option whose validator returned false is assigned its value, passed
\* through its transformer when it has one; when the pass yields values, that
\* is the value the handler is given for the option.
C27_FalseIsNoRejection ==
  last.op = "validateAndTransformOptions" =>
    LET options == last.options
        value(i) == last.interaction.options[options[i].name]
        validated(i) == /\ options[i].validator
                        /\ last.interaction.class = "CommandInteraction"
                        /\ value(i) # Null
        crashes(i) == \/ validated(i) /\ value(i) = "boom"
                      \/ value(i) = Null /\ options[i].required /\ ~last.skipRequiredCheck
        reached(i) == \A j \in 1..(i - 1) : ~crashes(j)
        rejecting == SelectSeq(<<1, 2, 3>>,
                               LAMBDA i : /\ reached(i) /\ validated(i)
                                          /\ value(i) \in {"str", "verr"})
    IN  /\ last.errors = [j \in DOMAIN rejecting |-> RejectMessage(options[rejecting[j]].name)]
        /\ \A i \in 1..3 :
             (reached(i) /\ validated(i) /\ value(i) = "false")
               => LET given == IF options[i].transformer THEN "T(false)" ELSE "false"
                  IN  /\ options[i].name \in last.assigned
                      /\ last.values[options[i].name] = given
                      /\ options[i].transformer <=> options[i].name \in Range(last.tcalls)
                      /\ last.kind = "values" => last.result[i] = given

\* C27 happens: the validators of a and c returned false, that of b true; a
\* has a transformer, c has none, and the pass yielded the values.
C27_Witness ==
  /\ last.op = "validateAndTransformOptions"
  /\ last.interaction.class = "CommandInteraction"
  /\ \A i \in 1..3 : last.options[i].validator
  /\ last.options[1].transformer /\ ~last.options[3].transformer
  /\ last.interaction.options = [n \in {"a", "b", "c"} |-> IF n = "b" THEN "ok" ELSE "false"]
  /\ last.vcalls = <<"a", "b", "c">>
  /\ last.kind = "values"
  /\ last.result[1] = "T(false)" /\ last.result[3] = "false"

\* C28: the chat dispatch map is one map for all the calls of
\* registerCommandsFrom and registerGuildCommandsFrom on a client, whether
\* they follow each other or overlap, and no step takes an entry out of it or
\* replaces one: when a call is rejected, the entries inserted before stay
\* and handleCommand finds them; and a call never inserts a command file
\* whose key another call inserted, but is rejected at that file with
\* 'Duplicate command name <key>', having made no call of rest.put.
C28_SharedMapNeverRolledBack ==
  [][LET iterates == load.pc = "chat" /\ suspended' = suspended
         others == DOMAIN commandMap \ DOMAIN load.chatKeys
         read == IF iterates THEN load'.seen \ load.seen ELSE {}
         echo == <<"e", "c", "h", "o", ".", "t", "s", "x">>
         declared(e) == IF e.name = echo THEN "echo" ELSE "ping"
         eligible(e) == e.name \in {<<"p", "i", "n", "g", ".", "t", "s">>,
                                    <<"p", "i", "n", "g", ".", "c", "m", "d", ".", "j", "s">>,
                                    echo}
         rejected == /\ iterates
                     /\ load'.pc = "idle"
                     /\ last'.op = "register"
                     /\ last'.outcome = "rejected"
         interaction(name) == [class |-> "CommandInteraction",
                               options |-> [n \in OptionNamesAt(commandMap', name) |-> "ok"]]
     IN  /\ \A k \in DOMAIN commandMap :
              k \in DOMAIN commandMap' /\ commandMap'[k] = commandMap[k]
         /\ \A e \in read : eligible(e) => declared(e) \notin others
         /\ last'.op = "handleCommand"
              => (last'.result = "false" <=> last'.name \notin DOMAIN commandMap)
         /\ rejected
              => /\ \A k \in DOMAIN commandMap :
                      handleCommandCall(commandMap', <<>>, k, interaction(k), {}).result # "false"
                 /\ eligible(last'.entry)
                      => /\ declared(last'.entry) \in DOMAIN commandMap
                         /\ last'.error = "Duplicate command name " \o declared(last'.entry)
                         /\ ~last'.put
                         /\ restPuts' = restPuts
    ]_vars

\* C28 happens: while a call of registerCommandsFrom that has inserted ping is
\* still in progress, a call of registerGuildCommandsFrom read a file of the
\* key ping as its first file and was rejected, the key still being in the map.
C28_Witness ==
  /\ loads = 2
  /\ Len(suspended) = 1
  /\ suspended[1].guildId = Undefined
  /\ suspended[1].chatKeys = [k \in {"ping"} |-> 1]
  /\ last.op = "register"
  /\ last.outcome = "rejected"
  /\ last.guildId = "guild"
  /\ last.error = "Duplicate command name ping"
  /\ last.chatKeys = [k \in {"ping"} |-> 1]
  /\ "ping" \in DOMAIN commandMap

\* C29: handleContextMenu on a name it finds returns true and does not reject,
\* whatever the execution it started does: the execution may fail, and the
\* call may return before the execution is over.  handleCommand returns true
\* only when the execution is over and has not failed, and rejects with the
\* error of an execution that failed.
C29_ContextMenuNotAwaited ==
  /\ (/\ last.op = "handleContextMenu"
      /\ last.name \in DOMAIN ContextMenuMapFor(last.args, userContextMenuMap,
                                                 messageContextMenuMap))
       => /\ last.result = "true"
          /\ last.thrown = Null
          /\ last.returnedAfter \in 0..Len(last.events)
  /\ (last.op = "handleCommand" /\ last.result = "true")
       => /\ last.returnedAfter = Len(last.events)
          /\ last.failed = Null
  /\ (last.op = "handleCommand" /\ last.failed # Null)
       => /\ last.result = Thrown
          /\ last.thrown = last.failed

\* C29 happens: handleContextMenu returned true when the first middleware
\* had started and the handler had not; the handler then failed.
C29_Witness ==
  /\ last.op = "handleContextMenu"
  /\ last.result = "true"
  /\ last.events = << [at |-> "pre", who |-> "A"], [at |-> "handler", who |-> "M1.run"] >>
  /\ last.returnedAfter = 1
  /\ last.failed = "Error"

====
